---- MODULE Spec2Model ----
(***************************************************************************)
(* A model of the tfdc provider-docs export pipeline                       *)
(* (internal/provider/export.go, internal/provider/path.go) and of the     *)
(* CLI entry that drives it (internal/cli/cli.go).                         *)
(*                                                                         *)
(* A Go string is a sequence of one-character strings, so that template    *)
(* scanning, path cleaning and segment sanitising are computed character   *)
(* by character, as the code computes them.  The file system is a function *)
(* from physical paths (sequences of segments) to nodes.                   *)
(***************************************************************************)
EXTENDS Integers, Sequences, FiniteSets, TLC

\* ------------------------------------------------------------------------
\* strings
\* ------------------------------------------------------------------------

\* v under the name that body gives it: body(v), with v evaluated once
Let(v, body(_)) == body(v)

LowerSeq == <<"a","b","c","d","e","f","g","h","i","j","k","l","m",
              "n","o","p","q","r","s","t","u","v","w","x","y","z">>

UpperSeq == <<"A","B","C","D","E","F","G","H","I","J","K","L","M",
              "N","O","P","Q","R","S","T","U","V","W","X","Y","Z">>

Digits == {"0","1","2","3","4","5","6","7","8","9"}

Range(s) == { s[i] : i \in DOMAIN s }

\* strings.ToLower, one character
ToLowerChar(c) ==
  IF \E i \in DOMAIN UpperSeq : UpperSeq[i] = c
  THEN LowerSeq[CHOOSE i \in DOMAIN UpperSeq : UpperSeq[i] = c]
  ELSE c

\* strings.ToLower
ToLower(s) == [i \in DOMAIN s |-> ToLowerChar(s[i])]

\* strings.Trim(s, cutset): drop leading and trailing characters of cutset
Trim(s, cutset) ==
  LET keep == { i \in DOMAIN s : s[i] \notin cutset }
  IN IF keep = {} THEN <<>>
     ELSE LET lo == CHOOSE i \in keep : \A j \in keep : i <= j
              hi == CHOOSE i \in keep : \A j \in keep : j <= i
          IN SubSeq(s, lo, hi)

\* strings.TrimSpace
TrimSpace(s) == Trim(s, {" "})

\* strings.HasPrefix
HasPrefix(s, p) == Len(s) >= Len(p) /\ SubSeq(s, 1, Len(p)) = p

\* strings.HasSuffix
HasSuffix(s, p) == Len(s) >= Len(p) /\ SubSeq(s, Len(s) - Len(p) + 1, Len(s)) = p

\* strings.ContainsAny
ContainsAny(s, chars) == \E i \in DOMAIN s : s[i] \in chars

Min(S) == CHOOSE x \in S : \A y \in S : x <= y
Max(S) == CHOOSE x \in S : \A y \in S : y <= x

\* the k-th smallest element of a set of numbers
Nth(S, k) == CHOOSE x \in S : Cardinality({ y \in S : y < x }) = k - 1

\* the fields of s between the cut positions: field k runs from the k-th cut
\* to the next one, both excluded
SplitAt(s, cuts) ==
  [k \in 1..(Cardinality(cuts) - 1) |->
     SubSeq(s, Nth(cuts, k) + 1, Nth(cuts, k + 1) - 1)]

\* strings.Split(s, sep) for a one-character separator
Split(s, sep) == SplitAt(s, {0, Len(s) + 1} \cup { i \in DOMAIN s : s[i] = sep })

RECURSIVE JoinWith(_, _)
\* strings.Join(segs, "/")
JoinWith(segs, sep) ==
  IF segs = <<>> THEN <<>>
  ELSE IF Len(segs) = 1 THEN segs[1]
  ELSE segs[1] \o <<sep>> \o JoinWith(Tail(segs), sep)

\* ------------------------------------------------------------------------
\* path/filepath (Unix)
\* ------------------------------------------------------------------------

Sep == "/"
Dot == <<".">>
DotDot == <<".", ".">>

\* the process working directory, used by filepath.Abs on a relative path
Cwd == <<"/", "w">>

\* filepath.IsAbs
IsAbs(p) == Len(p) > 0 /\ p[1] = Sep

RECURSIVE CleanSegs(_, _, _)
\* the element stack of filepath.Clean: drop "" and ".", resolve "..",
\* drop ".." at the root, keep leading ".." of a relative path
CleanSegs(segs, rooted, acc) ==
  IF segs = <<>> THEN acc
  ELSE LET h == Head(segs)
           t == Tail(segs)
       IN IF h = <<>> \/ h = Dot THEN CleanSegs(t, rooted, acc)
          ELSE IF h = DotDot
               THEN IF acc # <<>> /\ acc[Len(acc)] # DotDot
                    THEN CleanSegs(t, rooted, SubSeq(acc, 1, Len(acc) - 1))
                    ELSE IF rooted THEN CleanSegs(t, rooted, acc)
                    ELSE CleanSegs(t, rooted, Append(acc, h))
               ELSE CleanSegs(t, rooted, Append(acc, h))

\* filepath.Clean
Clean(p) ==
  IF p = <<>> THEN Dot
  ELSE Let(CleanSegs(Split(p, Sep), IsAbs(p), <<>>), LAMBDA segs :
         IF IsAbs(p) THEN <<Sep>> \o JoinWith(segs, Sep)
         ELSE IF segs = <<>> THEN Dot ELSE JoinWith(segs, Sep))

\* filepath.Join of two elements
Join(a, b) ==
  IF a = <<>> /\ b = <<>> THEN <<>>
  ELSE IF a = <<>> THEN Clean(b)
  ELSE IF b = <<>> THEN Clean(a)
  ELSE Clean(a \o <<Sep>> \o b)

\* filepath.Join of a list of elements
JoinAll(elems) ==
  Let(SelectSeq(elems, LAMBDA e : e # <<>>), LAMBDA ne :
    IF ne = <<>> THEN <<>> ELSE Clean(JoinWith(ne, Sep)))

\* filepath.Abs
Abs(p) == IF IsAbs(p) THEN Clean(p) ELSE Join(Cwd, p)

\* filepath.Dir
Dir(p) ==
  LET slashes == { i \in DOMAIN p : p[i] = Sep }
  IN IF slashes = {} THEN Dot
     ELSE LET last == CHOOSE i \in slashes : \A j \in slashes : j <= i
          IN Clean(SubSeq(p, 1, last))

\* the elements of a cleaned path
Elems(p) == SelectSeq(Split(p, Sep), LAMBDA e : e # <<>>)

\* the number of leading elements that a and b share
CommonLen(a, b) ==
  Cardinality({ k \in 1..Min({Len(a), Len(b)}) : SubSeq(a, 1, k) = SubSeq(b, 1, k) })

\* filepath.Rel: the relative path from base to targ, both cleaned first;
\* fails when one is absolute and the other is not, or when base keeps a
\* leading ".." that cannot be walked back
Rel(basepath, targpath) ==
  Let(Clean(basepath), LAMBDA base :
  Let(Clean(targpath), LAMBDA targ :
    IF targ = base THEN [ok |-> TRUE, val |-> Dot]
    ELSE IF IsAbs(base) # IsAbs(targ) THEN [ok |-> FALSE, val |-> <<>>]
    ELSE Let(IF base = Dot THEN <<>> ELSE Elems(base), LAMBDA be :
         Let(IF targ = Dot THEN <<>> ELSE Elems(targ), LAMBDA te :
         Let(CommonLen(be, te), LAMBDA n :
         Let(SubSeq(be, n + 1, Len(be)), LAMBDA brest :
           IF brest # <<>> /\ brest[1] = DotDot THEN [ok |-> FALSE, val |-> <<>>]
           ELSE [ok |-> TRUE,
                 val |-> JoinWith([i \in 1..Len(brest) |-> DotDot]
                                  \o SubSeq(te, n + 1, Len(te)), Sep)]))))))

\* ------------------------------------------------------------------------
\* the file system: physical paths are sequences of segments, the root is
\* <<>>; a node is a directory, a regular file or a symbolic link to a
\* physical directory path
\* ------------------------------------------------------------------------

DirNode == [kind |-> "dir"]
FileNode(d) == [kind |-> "file", data |-> d]
LinkNode(to) == [kind |-> "link", to |-> to]

Exists(f, pp) == pp \in DOMAIN f
IsKind(f, pp, k) == pp \in DOMAIN f /\ f[pp].kind = k

IsPrefixSeq(a, b) == Len(a) <= Len(b) /\ SubSeq(b, 1, Len(a)) = a

RECURSIVE Walk(_, _, _, _)
\* kernel path resolution from the physical directory cur along segs;
\* a symbolic link is followed in every component but the last, and in the
\* last one too when followLast
Walk(f, cur, segs, followLast) ==
  IF segs = <<>> THEN [err |-> "", path |-> cur]
  ELSE LET next == Append(cur, Head(segs))
           rest == Tail(segs)
       IN IF IsKind(f, next, "link") /\ (rest # <<>> \/ followLast)
          THEN Walk(f, f[next].to, rest, followLast)
          ELSE IF rest = <<>> THEN [err |-> "", path |-> next]
          ELSE IF ~Exists(f, next) THEN [err |-> "ENOENT", path |-> next]
          ELSE IF ~IsKind(f, next, "dir") THEN [err |-> "ENOTDIR", path |-> next]
          ELSE Walk(f, next, rest, followLast)

\* os.Lstat(path): "" with the node's kind, or the errno
Lstat(f, p) ==
  Let(Walk(f, <<>>, Elems(p), FALSE), LAMBDA w :
    IF w.err # "" THEN [err |-> w.err, kind |-> ""]
    ELSE IF ~Exists(f, w.path) THEN [err |-> "ENOENT", kind |-> ""]
    ELSE [err |-> "", kind |-> f[w.path].kind])

RECURSIVE MkdirFrom(_, _, _)
MkdirFrom(f, cur, segs) ==
  IF segs = <<>> THEN [err |-> "", fs |-> f]
  ELSE LET next == Append(cur, Head(segs))
       IN IF ~Exists(f, next)
          THEN MkdirFrom((next :> DirNode) @@ f, next, Tail(segs))
          ELSE IF IsKind(f, next, "link") THEN MkdirFrom(f, f[next].to, Tail(segs))
          ELSE IF IsKind(f, next, "dir") THEN MkdirFrom(f, next, Tail(segs))
          ELSE [err |-> "ENOTDIR", fs |-> f]

\* os.MkdirAll(path): creates the missing directories top-down, following
\* symbolic links; fails on a component that is a regular file
MkdirAll(f, p) == MkdirFrom(f, <<>>, Elems(p))

\* os.WriteFile opening the file for append: the old bytes stay in front
WriteFileAppend(f, p, d) ==
  Let(Walk(f, <<>>, Elems(p), TRUE), LAMBDA w :
    IF w.err # "" THEN [err |-> w.err, fs |-> f]
    ELSE IF Len(w.path) > 0 /\ ~IsKind(f, SubSeq(w.path, 1, Len(w.path) - 1), "dir")
         THEN [err |-> "ENOENT", fs |-> f]
    ELSE IF IsKind(f, w.path, "dir") THEN [err |-> "EISDIR", fs |-> f]
    ELSE IF IsKind(f, w.path, "file")
         THEN [err |-> "", fs |-> (w.path :> FileNode([t |-> "appended", old |-> f[w.path].data, new |-> d])) @@ f]
    ELSE [err |-> "", fs |-> (w.path :> FileNode(d)) @@ f])

\* os.WriteFile(path, data): creates or truncates the file and writes data;
\* the parent must exist; symbolic links are followed
WriteFile(f, p, d) ==
  Let(Walk(f, <<>>, Elems(p), TRUE), LAMBDA w :
    IF w.err # "" THEN [err |-> w.err, fs |-> f]
    ELSE IF Len(w.path) > 0 /\ ~IsKind(f, SubSeq(w.path, 1, Len(w.path) - 1), "dir")
         THEN [err |-> "ENOENT", fs |-> f]
    ELSE IF IsKind(f, w.path, "dir") THEN [err |-> "EISDIR", fs |-> f]
    ELSE [err |-> "", fs |-> (w.path :> FileNode(d)) @@ f])

\* os.RemoveAll(path): removes path and everything below it; a missing path
\* is no error; a symbolic link in the last component is removed, not
\* followed, while links in the other components are followed
RemoveAll(f, p) ==
  Let(Walk(f, <<>>, Elems(p), FALSE), LAMBDA w :
    IF w.err = "ENOENT" THEN [err |-> "", fs |-> f]
    ELSE IF w.err # "" THEN [err |-> w.err, fs |-> f]
    ELSE IF ~Exists(f, w.path) THEN [err |-> "", fs |-> f]
    ELSE IF f[w.path].kind # "dir"
         THEN [err |-> "", fs |-> [q \in DOMAIN f \ {w.path} |-> f[q]]]
    ELSE [err |-> "",
          fs |-> [q \in { q \in DOMAIN f : ~IsPrefixSeq(w.path, q) } |-> f[q]]])

\* ------------------------------------------------------------------------
\* internal/provider/path.go
\* ------------------------------------------------------------------------

Brace == {"{", "}"}

\* whether ch is outside [a-zA-Z0-9._-] (reInvalidSegment)
IsInvalidSegmentChar(ch) ==
  ch \notin (Range(LowerSeq) \cup Range(UpperSeq) \cup Digits \cup {".", "_", "-"})

\* the end of the match of \{[^{}]+\} that starts at i, or 0
PlaceholderEnd(t, i) ==
  IF i > Len(t) \/ t[i] # "{" THEN 0
  ELSE LET braces == { j \in (i + 1)..Len(t) : t[j] \in Brace }
       IN IF braces = {} THEN 0
          ELSE LET j == CHOOSE k \in braces : \A m \in braces : k <= m
               IN IF t[j] = "}" /\ j > i + 1 THEN j ELSE 0

RECURSIVE FindPlaceholders(_, _)
\* rePlaceholder.FindAllStringIndex: the leftmost non-overlapping matches
\* from position i on, as pairs <<first, last>>
FindPlaceholders(t, i) ==
  Let({ k \in i..Len(t) : PlaceholderEnd(t, k) # 0 }, LAMBDA starts :
    IF starts = {} THEN <<>>
    ELSE <<(<<Min(starts), PlaceholderEnd(t, Min(starts))>>)>>
         \o FindPlaceholders(t, PlaceholderEnd(t, Min(starts)) + 1))

RECURSIVE StripPlaceholders(_, _, _)
StripPlaceholders(t, locs, cursor) ==
  IF locs = <<>> THEN SubSeq(t, cursor, Len(t))
  ELSE SubSeq(t, cursor, locs[1][1] - 1) \o StripPlaceholders(t, Tail(locs), locs[1][2] + 1)

\* a syntax check that accepts every template
validatePathTemplateSyntaxLax(template) == ""

\* validatePathTemplateSyntax: a brace left after removing every placeholder
validatePathTemplateSyntax(template) ==
  LET leftover == StripPlaceholders(template, FindPlaceholders(template, 1), 1)
  IN IF ContainsAny(leftover, Brace) THEN "invalid placeholder syntax" ELSE ""

RECURSIVE RenderFrom(_, _, _, _)
\* the loop of renderPathTemplate: one pass over the matches of the template
RenderFrom(t, locs, cursor, vars) ==
  IF locs = <<>> THEN [ok |-> TRUE, val |-> SubSeq(t, cursor, Len(t)), err |-> ""]
  ELSE LET loc == locs[1]
           key == SubSeq(t, loc[1] + 1, loc[2] - 1)
       IN IF key \notin DOMAIN vars
          THEN [ok |-> FALSE, val |-> SubSeq(t, loc[1], loc[2]), err |-> "unresolved placeholder"]
          ELSE LET r == RenderFrom(t, Tail(locs), loc[2] + 1, vars)
               IN IF ~r.ok THEN r
                  ELSE [ok |-> TRUE,
                        val |-> SubSeq(t, cursor, loc[1] - 1) \o vars[key] \o r.val,
                        err |-> ""]

RECURSIVE ReplaceAll(_, _, _)
\* strings.ReplaceAll
ReplaceAll(s, old, new) ==
  Let({ i \in 1..(Len(s) - Len(old) + 1) : SubSeq(s, i, i + Len(old) - 1) = old }, LAMBDA hits :
    IF hits = {} THEN s
    ELSE SubSeq(s, 1, Min(hits) - 1) \o new
         \o ReplaceAll(SubSeq(s, Min(hits) + Len(old), Len(s)), old, new))

RECURSIVE ReplaceEach(_, _, _)
ReplaceEach(t, keys, vars) ==
  IF keys = {} THEN t
  ELSE Let(CHOOSE k \in keys : \A j \in keys : Len(k) <= Len(j), LAMBDA k :
         ReplaceEach(ReplaceAll(t, <<"{">> \o k \o <<"}">>, vars[k]), keys \ {k}, vars))

\* rendering by one strings.ReplaceAll per variable, over the whole text
renderByReplaceAll(template, vars) ==
  IF validatePathTemplateSyntax(template) # ""
  THEN [ok |-> FALSE, val |-> <<>>, err |-> "invalid placeholder syntax"]
  ELSE [ok |-> TRUE, err |-> "", val |-> ReplaceEach(template, DOMAIN vars, vars)]

renderPathTemplate(template, vars) ==
  IF validatePathTemplateSyntax(template) # ""
  THEN [ok |-> FALSE, val |-> <<>>, err |-> "invalid placeholder syntax"]
  ELSE RenderFrom(template, FindPlaceholders(template, 1), 1, vars)

resolvePathWithinBase(path, baseAbs) ==
  Let(Clean(path), LAMBDA cleaned :
    Abs(IF IsAbs(cleaned) THEN cleaned ELSE Join(baseAbs, cleaned)))

\* containment decided on the text of the paths
isPathWithinDirByPrefix(baseAbs, targetAbs) == HasPrefix(targetAbs, baseAbs)

isPathWithinDir(baseAbs, targetAbs) ==
  Let(Rel(baseAbs, targetAbs), LAMBDA rel :
    /\ rel.ok
    /\ \/ rel.val = Dot
       \/ rel.val # DotDot /\ ~HasPrefix(rel.val, DotDot \o <<Sep>>))

\* rejectSymlinkIfExists: "" when path is absent or no symbolic link
rejectSymlinkIfExists(f, path) ==
  Let(Lstat(f, path), LAMBDA st :
    IF st.err = "ENOENT" THEN ""
    ELSE IF st.err # "" THEN st.err
    ELSE IF st.kind = "link" THEN "symlink component detected"
    ELSE "")

\* the path made of the first n elements of the absolute path p
PrefixPath(p, n) == <<Sep>> \o JoinWith(SubSeq(Elems(p), 1, n), Sep)

RECURSIVE RejectFromDepth(_, _, _)
RejectFromDepth(f, p, d) ==
  IF d > Len(Elems(p)) THEN ""
  ELSE Let(rejectSymlinkIfExists(f, PrefixPath(p, d)), LAMBDA e :
         IF e # "" THEN e ELSE RejectFromDepth(f, p, d + 1))

\* the depth from the root up to which rejectSymlinkInAncestors skips
SkipDepth == 1

\* rejectSymlinkInAncestors: every prefix of path from the root down, the
\* root and the first directory under it skipped
rejectSymlinkInAncestors(f, path) == RejectFromDepth(f, Clean(path), SkipDepth + 1)

RECURSIVE RejectSegments(_, _, _)
RejectSegments(f, current, segs) ==
  IF segs = <<>> THEN ""
  ELSE IF Head(segs) = <<>> \/ Head(segs) = Dot THEN RejectSegments(f, current, Tail(segs))
  ELSE Let(Join(current, Head(segs)), LAMBDA next :
       Let(rejectSymlinkIfExists(f, next), LAMBDA e :
         IF e # "" THEN e ELSE RejectSegments(f, next, Tail(segs))))

ensureNoSymlinkTraversal(f, baseAbs, targetAbs) ==
  IF ~isPathWithinDir(baseAbs, targetAbs) THEN "target is outside base dir"
  ELSE Let(rejectSymlinkInAncestors(f, baseAbs), LAMBDA a :
         IF a # "" THEN a
         ELSE Let(Rel(baseAbs, targetAbs), LAMBDA rel :
                IF ~rel.ok THEN "rel"
                ELSE IF rel.val = Dot THEN ""
                ELSE RejectSegments(f, baseAbs, Split(rel.val, Sep))))

BuildOutputPath(f, template, vars, outDir) ==
  Let(renderPathTemplate(template, vars), LAMBDA r :
    IF ~r.ok THEN [ok |-> FALSE, val |-> r.val, err |-> r.err]
    ELSE Let(Abs(outDir), LAMBDA outAbs :
         Let(resolvePathWithinBase(r.val, outAbs), LAMBDA pathAbs :
           IF ~isPathWithinDir(outAbs, pathAbs)
           THEN [ok |-> FALSE, val |-> pathAbs, err |-> "output path is outside -out-dir"]
           ELSE IF ensureNoSymlinkTraversal(f, outAbs, pathAbs) # ""
           THEN [ok |-> FALSE, val |-> pathAbs, err |-> "output path crosses symlink"]
           ELSE [ok |-> TRUE, val |-> pathAbs, err |-> ""])))

\* reInvalidSegment.ReplaceAllString(s, "-"): each maximal run of invalid
\* characters becomes one "-" (the first character of a run becomes "-",
\* the others of the run are dropped)
ReplaceInvalidRuns(s) ==
  SelectSeq([i \in DOMAIN s |->
               IF ~IsInvalidSegmentChar(s[i]) THEN s[i]
               ELSE IF i > 1 /\ IsInvalidSegmentChar(s[i - 1]) THEN "" ELSE "-"],
            LAMBDA c : c # "")

\* sanitizeSegment without the trimming of "-" and "."
sanitizeSegmentUntrimmed(s0) ==
  Let(ReplaceInvalidRuns(TrimSpace(ToLower(s0))), LAMBDA s :
    IF s = <<>> THEN <<"u","n","k","n","o","w","n">> ELSE s)

sanitizeSegment(s0) ==
  Let(Trim(ReplaceInvalidRuns(TrimSpace(ToLower(s0))), {"-", "."}), LAMBDA s :
    IF s = <<>> THEN <<"u","n","k","n","o","w","n">> ELSE s)

F_markdown == <<"m","a","r","k","d","o","w","n">>
F_json == <<"j","s","o","n">>
E_md == <<"m","d">>

extensionForFormat(format) ==
  IF format = F_markdown THEN [ok |-> TRUE, val |-> E_md, err |-> ""]
  ELSE IF format = F_json THEN [ok |-> TRUE, val |-> F_json, err |-> ""]
  ELSE [ok |-> FALSE, val |-> <<>>, err |-> "unsupported format"]

\* ------------------------------------------------------------------------
\* internal/provider/export.go: options, normalisation, derived paths
\* ------------------------------------------------------------------------

K_out == <<"o","u","t">>
K_namespace == <<"n","a","m","e","s","p","a","c","e">>
K_provider == <<"p","r","o","v","i","d","e","r">>
K_version == <<"v","e","r","s","i","o","n">>
K_category == <<"c","a","t","e","g","o","r","y">>
K_slug == <<"s","l","u","g">>
K_doc_id == <<"d","o","c","_","i","d">>
K_ext == <<"e","x","t">>

W_terraform == <<"t","e","r","r","a","f","o","r","m">>
W_docs == <<"d","o","c","s">>
W_manifest_json == <<"_","m","a","n","i","f","e","s","t",".","j","s","o","n">>
W_hashicorp == <<"h","a","s","h","i","c","o","r","p">>
W_validation == <<"v","a","l","i","d","a","t","i","o","n">>
W_unknown == <<"u","n","k","n","o","w","n">>
W_all == <<"a","l","l">>

C_resources == <<"r","e","s","o","u","r","c","e","s">>
C_data_sources == <<"d","a","t","a","-","s","o","u","r","c","e","s">>
C_ephemeral_resources == <<"e","p","h","e","m","e","r","a","l","-","r","e","s","o","u","r","c","e","s">>
C_functions == <<"f","u","n","c","t","i","o","n","s">>
C_guides == <<"g","u","i","d","e","s">>
C_overview == <<"o","v","e","r","v","i","e","w">>
C_actions == <<"a","c","t","i","o","n","s">>
C_list_resources == <<"l","i","s","t","-","r","e","s","o","u","r","c","e","s">>

\* a placeholder token {key}
PH(key) == <<"{">> \o key \o <<"}">>

DefaultPathTemplate ==
  PH(K_out) \o <<Sep>> \o W_terraform \o <<Sep>> \o PH(K_namespace) \o <<Sep>>
  \o PH(K_provider) \o <<Sep>> \o PH(K_version) \o <<Sep>> \o W_docs \o <<Sep>>
  \o PH(K_category) \o <<Sep>> \o PH(K_slug) \o <<".">> \o PH(K_ext)

reservedManifestPathOwner == "_manifest"

defaultCategories ==
  <<C_resources, C_data_sources, C_ephemeral_resources, C_functions,
    C_guides, C_overview, C_actions, C_list_resources>>

\* byte order of the characters that occur in the model's strings
AsciiOrder ==
  <<" ", "!", ",", "-", ".", "/">>
  \o <<"0","1","2","3","4","5","6","7","8","9">>
  \o UpperSeq \o <<"_">> \o LowerSeq \o <<"{", "}">>

Ord(c) == CHOOSE i \in DOMAIN AsciiOrder : AsciiOrder[i] = c

\* a < b on Go strings: the first byte that differs decides, else the length
StrLess(a, b) ==
  Let({ i \in 1..Min({Len(a), Len(b)}) : a[i] # b[i] }, LAMBDA diff :
    IF diff = {} THEN Len(a) < Len(b)
    ELSE Ord(a[Min(diff)]) < Ord(b[Min(diff)]))

RECURSIVE SortedStrings(_)
\* sort.Strings over the keys of a set
SortedStrings(set) ==
  IF set = {} THEN <<>>
  ELSE Let(CHOOSE x \in set : \A y \in set \ {x} : StrLess(x, y), LAMBDA m :
         <<m>> \o SortedStrings(set \ {m}))

RECURSIVE Flatten(_)
Flatten(ss) == IF ss = <<>> THEN <<>> ELSE Head(ss) \o Flatten(Tail(ss))

RECURSIVE ScanCategories(_, _)
\* the token loop of normalizeCategories over the tokens of all inputs
ScanCategories(tokens, set) ==
  IF tokens = <<>>
  THEN [ok |-> TRUE, err |-> "",
        val |-> IF set = {} THEN defaultCategories ELSE SortedStrings(set)]
  ELSE Let(ToLower(TrimSpace(Head(tokens))), LAMBDA cat :
         IF cat = <<>> THEN ScanCategories(Tail(tokens), set)
         ELSE IF cat = W_all THEN [ok |-> TRUE, err |-> "", val |-> defaultCategories]
         ELSE IF cat \notin Range(defaultCategories)
              THEN [ok |-> FALSE, err |-> "ValidationError", val |-> <<>>]
         ELSE ScanCategories(Tail(tokens), set \cup {cat}))

normalizeCategories(input) ==
  IF Len(input) = 0 THEN [ok |-> TRUE, err |-> "", val |-> defaultCategories]
  ELSE ScanCategories(Flatten([i \in DOMAIN input |-> Split(input[i], ",")]), {})

\* validateExportOptions: the normalised options, or the validation error
validateExportOptions(op) ==
  Let([op EXCEPT !.Namespace = ToLower(TrimSpace(op.Namespace)),
                 !.Name = ToLower(TrimSpace(op.Name)),
                 !.Version = TrimSpace(op.Version),
                 !.Format = ToLower(TrimSpace(op.Format)),
                 !.OutDir = TrimSpace(op.OutDir),
                 !.PathTemplate = TrimSpace(op.PathTemplate)], LAMBDA t :
  Let([t EXCEPT !.Namespace = IF t.Namespace = <<>> THEN W_hashicorp ELSE t.Namespace],
      LAMBDA o1 :
    IF o1.Name = <<>>
    THEN [ok |-> FALSE, err |-> "ValidationError", msg |-> "--name is required", opts |-> o1]
    ELSE IF o1.Version = <<>>
    THEN [ok |-> FALSE, err |-> "ValidationError", msg |-> "--version is required", opts |-> o1]
    ELSE
  Let([o1 EXCEPT !.Format = IF o1.Format = <<>> THEN F_markdown ELSE o1.Format], LAMBDA o2 :
    IF o2.OutDir = <<>>
    THEN [ok |-> FALSE, err |-> "ValidationError", msg |-> "--out-dir is required", opts |-> o2]
    ELSE
  Let([o2 EXCEPT !.PathTemplate = IF o2.PathTemplate = <<>> THEN DefaultPathTemplate
                                  ELSE o2.PathTemplate,
                 !.OutDir = Abs(o2.OutDir)], LAMBDA o3 :
  Let(normalizeCategories(o3.Categories), LAMBDA cats :
    IF ~cats.ok
    THEN [ok |-> FALSE, err |-> "ValidationError", msg |-> "unsupported category", opts |-> o3]
    ELSE
  Let([o3 EXCEPT !.Categories = cats.val], LAMBDA o4 :
    IF ~extensionForFormat(o4.Format).ok
    THEN [ok |-> FALSE, err |-> "ValidationError", msg |-> "unsupported format", opts |-> o4]
    ELSE [ok |-> TRUE, err |-> "", msg |-> "", opts |-> o4]))))))

\* the manifest root of the flat layout, without the namespace segment
manifestRootFlat(op) ==
  JoinAll(<<op.OutDir, W_terraform, sanitizeSegment(op.Name), sanitizeSegment(op.Version), W_docs>>)

manifestRootForOptions(op) ==
  JoinAll(<<op.OutDir, W_terraform, sanitizeSegment(op.Namespace),
            sanitizeSegment(op.Name), sanitizeSegment(op.Version), W_docs>>)

\* the manifest path of the flat layout
manifestPathFlat(op) == Join(manifestRootFlat(op), W_manifest_json)

manifestPathForOptions(op) == Join(manifestRootForOptions(op), W_manifest_json)

\* the placeholder values shared by validation, planning and clean derivation
KnownVars(op, ext) ==
  (K_out :> op.OutDir) @@ (K_namespace :> sanitizeSegment(op.Namespace))
  @@ (K_provider :> sanitizeSegment(op.Name)) @@ (K_version :> sanitizeSegment(op.Version))
  @@ (K_ext :> ext)

\* a template check that accepts every template
validatePathTemplateLax(f, op, ext) == [ok |-> TRUE, err |-> "", msg |-> ""]

validatePathTemplate(f, op, ext) ==
  Let(BuildOutputPath(f, op.PathTemplate,
                      KnownVars(op, ext) @@ (K_category :> W_validation)
                      @@ (K_slug :> W_validation) @@ (K_doc_id :> W_validation),
                      op.OutDir), LAMBDA r :
    IF ~r.ok THEN [ok |-> FALSE, err |-> "ValidationError", msg |-> r.err]
    ELSE IF r.val = manifestPathForOptions(op)
         THEN [ok |-> FALSE, err |-> "ValidationError", msg |-> "reserved manifest path"]
    ELSE [ok |-> TRUE, err |-> "", msg |-> ""])

\* prepareExportOptions without the check of the path template
prepareWithoutTemplateCheck(f, op) ==
  Let(validateExportOptions(op), LAMBDA v :
    IF ~v.ok THEN [ok |-> FALSE, err |-> v.err, msg |-> v.msg, opts |-> v.opts, ext |-> <<>>]
    ELSE Let(extensionForFormat(v.opts.Format), LAMBDA e :
           IF ~e.ok THEN [ok |-> FALSE, err |-> "ValidationError", msg |-> e.err, opts |-> v.opts, ext |-> <<>>]
           ELSE [ok |-> TRUE, err |-> "", msg |-> "", opts |-> v.opts, ext |-> e.val]))

\* prepareExportOptions: normalise, then validate format and path template
prepareExportOptions(f, op) ==
  Let(validateExportOptions(op), LAMBDA v :
    IF ~v.ok THEN [ok |-> FALSE, err |-> v.err, msg |-> v.msg, opts |-> v.opts, ext |-> <<>>]
    ELSE Let(extensionForFormat(v.opts.Format), LAMBDA e :
           IF ~e.ok THEN [ok |-> FALSE, err |-> "ValidationError", msg |-> e.err, opts |-> v.opts, ext |-> <<>>]
           ELSE Let(validatePathTemplate(f, v.opts, e.val), LAMBDA t :
                  IF ~t.ok THEN [ok |-> FALSE, err |-> t.err, msg |-> t.msg, opts |-> v.opts, ext |-> <<>>]
                  ELSE [ok |-> TRUE, err |-> "", msg |-> "", opts |-> v.opts, ext |-> e.val])))

RECURSIVE SubstituteFrom(_, _, _, _)
\* substituteUntilUnknownPlaceholder: the text up to the first placeholder
\* that is not in known, and whether there is one
SubstituteFrom(t, locs, cursor, known) ==
  IF locs = <<>> THEN [val |-> SubSeq(t, cursor, Len(t)), hasUnknown |-> FALSE]
  ELSE LET loc == locs[1]
           key == SubSeq(t, loc[1] + 1, loc[2] - 1)
           lit == SubSeq(t, cursor, loc[1] - 1)
       IN IF key \notin DOMAIN known THEN [val |-> lit, hasUnknown |-> TRUE]
          ELSE LET r == SubstituteFrom(t, Tail(locs), loc[2] + 1, known)
               IN [val |-> lit \o known[key] \o r.val, hasUnknown |-> r.hasUnknown]

substituteUntilUnknownPlaceholder(template, known) ==
  SubstituteFrom(template, FindPlaceholders(template, 1), 1, known)

deriveTemplateRoot(op, ext) ==
  Let(Abs(op.OutDir), LAMBDA outAbs :
  Let(substituteUntilUnknownPlaceholder(op.PathTemplate,
                                        KnownVars([op EXCEPT !.OutDir = outAbs], ext)),
      LAMBDA sub :
  Let(IF ~sub.hasUnknown THEN Dir(sub.val)
      ELSE IF ~HasSuffix(sub.val, <<Sep>>) THEN Dir(sub.val)
      ELSE sub.val, LAMBDA p1 :
  Let(resolvePathWithinBase(IF TrimSpace(p1) = <<>> \/ p1 = Dot THEN outAbs ELSE p1, outAbs),
      LAMBDA rootAbs :
    IF ~isPathWithinDir(outAbs, rootAbs)
    THEN [ok |-> FALSE, err |-> "ValidationError", msg |-> "derived clean root is outside --out-dir", val |-> rootAbs]
    ELSE [ok |-> TRUE, err |-> "", msg |-> "", val |-> rootAbs]))))

\* the orders sort.Slice may leave the targets in: longer paths first, paths
\* of equal length in either order
LongestFirstOrders(set) ==
  { sq \in [1..Cardinality(set) -> set] :
      /\ \A i, j \in DOMAIN sq : i # j => sq[i] # sq[j]
      /\ \A i, j \in DOMAIN sq : i < j => Len(sq[i]) >= Len(sq[j]) }

\* deriveCleanTargets without the comparison of each target with the output root
deriveCleanTargetsAnyRoot(op, ext) ==
  Let(deriveTemplateRoot(op, ext), LAMBDA tr :
    IF ~tr.ok THEN { [ok |-> FALSE, err |-> tr.err, msg |-> tr.msg, val |-> <<>>] }
    ELSE { [ok |-> TRUE, err |-> "", msg |-> "", val |-> sq] :
             sq \in LongestFirstOrders({tr.val, manifestRootForOptions(op)}) })

\* deriveCleanTargets: the set of possible results (one per order)
deriveCleanTargets(op, ext) ==
  Let(deriveTemplateRoot(op, ext), LAMBDA tr :
    IF ~tr.ok THEN { [ok |-> FALSE, err |-> tr.err, msg |-> tr.msg, val |-> <<>>] }
    ELSE Let({tr.val, manifestRootForOptions(op)}, LAMBDA targetSet :
           IF op.OutDir \in targetSet
           THEN { [ok |-> FALSE, err |-> "ValidationError",
                   msg |-> "--clean template resolves to --out-dir root", val |-> <<>>] }
           ELSE { [ok |-> TRUE, err |-> "", msg |-> "", val |-> sq] :
                    sq \in LongestFirstOrders(targetSet) }))

\* ------------------------------------------------------------------------
\* the registry behind the APIClient: what GetJSON and Get answer
\* ------------------------------------------------------------------------

\* one document of the registry: the detail fields, the slug its listing
\* summary carries, and how the detail endpoint answers for it (jsonErrIs is
\* the error of a failing GetJSON)
Doc(id, category, slug, title, content) ==
  [ID |-> id, Category |-> category, Slug |-> slug, Title |-> title, Content |-> content,
   listSlug |-> slug, getErr |-> FALSE, corrupt |-> FALSE, jsonErr |-> FALSE,
   jsonErrIs |-> "APIError", get2Err |-> FALSE, raw2Valid |-> TRUE, raw2Empty |-> FALSE]

\* the bytes a Get of document id returns on its n-th fetch: whether they
\* parse as JSON, and whether there are none
RawBytes(id, n, valid, empty) == [id |-> id, fetch |-> n, valid |-> valid, empty |-> empty]

NoBytes == RawBytes(<<>>, 0, FALSE, TRUE)

\* a detail fetch that tries GetJSON a second time when the first one fails
getProviderDocDetailRetrying(d) ==
  LET get == [op |-> "Get", what |-> "detail", key |-> d.ID, page |-> 0]
      getjson == [op |-> "GetJSON", what |-> "detail", key |-> d.ID, page |-> 0]
  IN IF d.getErr
     THEN [err |-> "APIError", detail |-> d, raw |-> NoBytes, calls |-> <<get>>]
     ELSE IF ~d.corrupt
     THEN [err |-> "", detail |-> d, raw |-> RawBytes(d.ID, 1, TRUE, FALSE), calls |-> <<get>>]
     ELSE IF d.jsonErr
     THEN [err |-> d.jsonErrIs, detail |-> d, raw |-> NoBytes, calls |-> <<get, getjson, getjson>>]
     ELSE IF d.get2Err
     THEN [err |-> "APIError", detail |-> d, raw |-> NoBytes, calls |-> <<get, getjson, get>>]
     ELSE [err |-> "", detail |-> d, raw |-> RawBytes(d.ID, 2, d.raw2Valid, d.raw2Empty),
           calls |-> <<get, getjson, get>>]

\* a detail fetch that keeps the bytes of the first Get after the recovery
getProviderDocDetailKeepingRaw(d) ==
  LET get == [op |-> "Get", what |-> "detail", key |-> d.ID, page |-> 0]
      getjson == [op |-> "GetJSON", what |-> "detail", key |-> d.ID, page |-> 0]
  IN IF d.getErr
     THEN [err |-> "APIError", detail |-> d, raw |-> NoBytes, calls |-> <<get>>]
     ELSE IF ~d.corrupt
     THEN [err |-> "", detail |-> d, raw |-> RawBytes(d.ID, 1, TRUE, FALSE), calls |-> <<get>>]
     ELSE IF d.jsonErr
     THEN [err |-> d.jsonErrIs, detail |-> d, raw |-> NoBytes, calls |-> <<get, getjson>>]
     ELSE [err |-> "", detail |-> d, raw |-> RawBytes(d.ID, 1, FALSE, FALSE),
           calls |-> <<get, getjson>>]

\* getProviderDocDetail: the client calls it issues, and its result
getProviderDocDetail(d) ==
  LET get == [op |-> "Get", what |-> "detail", key |-> d.ID, page |-> 0]
      getjson == [op |-> "GetJSON", what |-> "detail", key |-> d.ID, page |-> 0]
  IN IF d.getErr
     THEN [err |-> "APIError", detail |-> d, raw |-> NoBytes, calls |-> <<get>>]
     ELSE IF ~d.corrupt
     THEN [err |-> "", detail |-> d, raw |-> RawBytes(d.ID, 1, TRUE, FALSE), calls |-> <<get>>]
     ELSE IF d.jsonErr
     THEN [err |-> d.jsonErrIs, detail |-> d, raw |-> NoBytes, calls |-> <<get, getjson>>]
     ELSE IF d.get2Err
     THEN [err |-> "APIError", detail |-> d, raw |-> NoBytes, calls |-> <<get, getjson, get>>]
     ELSE [err |-> "", detail |-> d, raw |-> RawBytes(d.ID, 2, d.raw2Valid, d.raw2Empty),
           calls |-> <<get, getjson, get>>]

\* renderContent that re-encodes nothing
renderContentVerbatim(format, detail, raw) ==
  IF format = F_markdown THEN [err |-> "", data |-> [t |-> "blob", v |-> detail.Content]]
  ELSE IF format = F_json
  THEN IF raw.empty THEN [err |-> "WriteError", data |-> [t |-> "none", v |-> ""]]
       ELSE [err |-> "", data |-> [t |-> "raw", v |-> <<raw.id, raw.fetch>>]]
  ELSE [err |-> "ValidationError", data |-> [t |-> "none", v |-> ""]]

\* renderContent: the bytes of the document's file
renderContent(format, detail, raw) ==
  IF format = F_markdown THEN [err |-> "", data |-> [t |-> "blob", v |-> detail.Content]]
  ELSE IF format = F_json
  THEN IF ~raw.valid
       THEN IF raw.empty THEN [err |-> "WriteError", data |-> [t |-> "none", v |-> ""]]
            ELSE [err |-> "", data |-> [t |-> "raw", v |-> <<raw.id, raw.fetch>>]]
       ELSE [err |-> "", data |-> [t |-> "indented", v |-> <<raw.id, raw.fetch>>]]
  ELSE [err |-> "ValidationError", data |-> [t |-> "none", v |-> ""]]

\* the first provider version of the response, whatever its version
resolveFirstProviderVersion(resp, version) ==
  IF resp.err # "" THEN [err |-> resp.err, id |-> ""]
  ELSE IF resp.included = <<>> THEN [err |-> "NotFoundError", id |-> ""]
  ELSE [err |-> "", id |-> resp.included[1].id]

\* resolveProviderVersionID over the included entries of the response
resolveProviderVersionID(resp, version) ==
  LET hits == { i \in DOMAIN resp.included :
                  resp.included[i].type = "provider-versions" /\ resp.included[i].version = version }
  IN IF resp.err # "" THEN [err |-> resp.err, id |-> ""]
     ELSE IF hits = {} THEN [err |-> "NotFoundError", id |-> ""]
     ELSE [err |-> "", id |-> resp.included[CHOOSE i \in hits : \A j \in hits : i <= j].id]

\* a listing that has one page per category
listFirstPageOnly(r, category, page) ==
  IF <<category, page>> \in r.listErr THEN [err |-> "APIError", docs |-> <<>>]
  ELSE IF category \in DOMAIN r.pages /\ page = 1 /\ page <= Len(r.pages[category])
       THEN [err |-> "", docs |-> r.pages[category][page]]
       ELSE [err |-> "", docs |-> <<>>]

\* listProviderDocs: the page of a category, empty past the last page
listProviderDocs(r, category, page) ==
  IF <<category, page>> \in r.listErr THEN [err |-> "APIError", docs |-> <<>>]
  ELSE IF category \in DOMAIN r.pages /\ page <= Len(r.pages[category])
       THEN [err |-> "", docs |-> r.pages[category][page]]
       ELSE [err |-> "", docs |-> <<>>]

RECURSIVE SortPlannedByDocID(_)
\* the planned files in the order of their document IDs
SortPlannedByDocID(set) ==
  IF set = {} THEN <<>>
  ELSE Let(CHOOSE x \in set : \A y \in set \ {x} : ~StrLess(y.item.DocID, x.item.DocID),
           LAMBDA m : <<m>> \o SortPlannedByDocID(set \ {m}))

RECURSIVE SortPlanned(_)
\* sort.Slice(planned) by item.Path (the planned paths are distinct)
SortPlanned(set) ==
  IF set = {} THEN <<>>
  ELSE Let(CHOOSE x \in set : \A y \in set \ {x} : ~StrLess(y.item.Path, x.item.Path),
           LAMBDA m : <<m>> \o SortPlanned(set \ {m}))

\* the manifest file written by writeManifest at time t
ManifestData(op, docs, t) ==
  [t |-> "manifest", provider |-> sanitizeSegment(op.Name),
   namespace |-> sanitizeSegment(op.Namespace), version |-> op.Version,
   format |-> op.Format, generated_at |-> t, total |-> Len(docs), docs |-> docs]

\* writeManifest: symlink check, MkdirAll of the manifest root, WriteFile
writeManifest(f, op, docs, t) ==
  Let(manifestPathForOptions(op), LAMBDA manifestPath :
    IF ensureNoSymlinkTraversal(f, op.OutDir, manifestPath) # ""
    THEN [err |-> "ValidationError", fs |-> f, path |-> manifestPath, log |-> <<>>]
    ELSE Let(Dir(manifestPath), LAMBDA docsRoot :
         Let(MkdirAll(f, docsRoot), LAMBDA mk :
           IF mk.err # ""
           THEN [err |-> "WriteError", fs |-> mk.fs, path |-> docsRoot,
                 log |-> <<[op |-> "MkdirAll", path |-> docsRoot]>>]
           ELSE Let(WriteFile(mk.fs, manifestPath, ManifestData(op, docs, t)), LAMBDA wr :
                  [err |-> IF wr.err # "" THEN "WriteError" ELSE "",
                   fs |-> wr.fs, path |-> manifestPath,
                   log |-> <<[op |-> "MkdirAll", path |-> docsRoot],
                             [op |-> "WriteFile", path |-> manifestPath]>>]))))

\* ------------------------------------------------------------------------
\* inputs: options, registries and initial file systems
\* ------------------------------------------------------------------------

\* how many times the same export is invoked in one behaviour
MaxRuns == 2

P_out == <<"/","t","/","l","/","o">>
N_hc == <<"h","c">>
N_Aws == <<"A","w","s">>
V_10 == <<"1",".","0">>
V_20 == <<"2",".","0">>

T_custom == <<"{","o","u","t","}","/","c","u","s","t","o","m","/","{","c","a","t","e","g","o","r","y","}","/","{","s","l","u","g","}",".","{","e","x","t","}">>
T_flat == <<"{","o","u","t","}","/","f","l","a","t","/","{","s","l","u","g","}",".","{","e","x","t","}">>
T_root == <<"{","o","u","t","}","/","{","s","l","u","g","}",".","{","e","x","t","}">>
T_shared == <<"{","o","u","t","}","/","t","e","r","r","a","f","o","r","m","/","{","c","a","t","e","g","o","r","y","}","/","{","s","l","u","g","}",".","{","e","x","t","}">>
T_outside == <<"{","o","u","t","}","/",".",".","/","o","u","t","s","i","d","e","/","{","s","l","u","g","}",".","{","e","x","t","}">>
T_unknown == <<"{","o","u","t","}","/","c","u","s","t","o","m","/","{","u","n","k","n","o","w","n","}","/","{","s","l","u","g","}",".","{","e","x","t","}">>
T_malformed == <<"{","o","u","t","}","/","c","u","s","t","o","m","/","{","s","l","u","g">>
T_manifest == <<"{","o","u","t","}","/","t","e","r","r","a","f","o","r","m","/","{","n","a","m","e","s","p","a","c","e","}","/","{","p","r","o","v","i","d","e","r","}","/","{","v","e","r","s","i","o","n","}","/","d","o","c","s","/","_","m","a","n","i","f","e","s","t",".","j","s","o","n">>
T_docsSlug == <<"{","o","u","t","}","/","t","e","r","r","a","f","o","r","m","/","{","n","a","m","e","s","p","a","c","e","}","/","{","p","r","o","v","i","d","e","r","}","/","{","v","e","r","s","i","o","n","}","/","d","o","c","s","/","{","s","l","u","g","}",".","{","e","x","t","}">>
T_relative == <<"c","u","s","t","o","m","/","{","c","a","t","e","g","o","r","y","}","/","{","s","l","u","g","}",".","{","e","x","t","}">>

Templates ==
  {DefaultPathTemplate, T_custom, T_flat, T_root, T_shared, T_outside, T_unknown,
   T_malformed, T_manifest, T_docsSlug, T_relative}

\* a well-formed invocation
BaseOptions ==
  [Namespace |-> N_hc, Name |-> N_Aws, Version |-> V_10, Format |-> F_markdown,
   OutDir |-> P_out, Categories |-> <<<<"g","u","i","d","e","s",",","r","e","s","o","u","r","c","e","s">>>>,
   PathTemplate |-> DefaultPathTemplate, Clean |-> FALSE]

\* every path template, with and without clean
TemplateOptions ==
  { [BaseOptions EXCEPT !.PathTemplate = tp, !.Clean = cl] : tp \in Templates, cl \in BOOLEAN }

\* format json
JsonOptions ==
  { [BaseOptions EXCEPT !.Format = F_json, !.PathTemplate = tp, !.Clean = cl] :
      tp \in {DefaultPathTemplate, T_docsSlug}, cl \in BOOLEAN }

\* one field missing or unsupported
InvalidOptions ==
  { [bad EXCEPT !.Clean = cl] :
      bad \in { [BaseOptions EXCEPT !.Name = <<>>], [BaseOptions EXCEPT !.Version = <<>>],
                [BaseOptions EXCEPT !.OutDir = <<>>], [BaseOptions EXCEPT !.Format = <<"y","a","m","l">>],
                [BaseOptions EXCEPT !.Categories = <<<<"g","u","i","d","e","s",",","b","o","g","u","s">>>>] },
      cl \in BOOLEAN }

N_spaced == <<"H"," ","c">>

\* a namespace that sanitizeSegment changes
SpacedOptions ==
  { [BaseOptions EXCEPT !.Namespace = N_spaced, !.PathTemplate = tp] :
      tp \in {DefaultPathTemplate, T_custom} }

\* the categories as "all", as an empty list, and as an unsorted list with a
\* repeated entry
CategoryLists == {<<<<"a","l","l">>>>, <<>>, <<<<"r","e","s","o","u","r","c","e","s",",","g","u","i","d","e","s">>, <<"g","u","i","d","e","s">>>>}

CategoryOptions == { [BaseOptions EXCEPT !.Categories = cl] : cl \in CategoryLists }

OptionInputs ==
  TemplateOptions \cup JsonOptions \cup InvalidOptions \cup SpacedOptions \cup CategoryOptions

D1 == Doc(<<"d","1">>, C_guides, <<"t","a","g">>, "Tag policy", "body-d1")
D2 == Doc(<<"d","2">>, C_resources, <<"s","3">>, "S3 bucket", "body-d2")
D3 == Doc(<<"d","3">>, C_resources, <<"t","a","g">>, "Tag resource", "body-d3")
D4 == Doc(<<"d","4">>, C_resources, <<"_","m","a","n","i","f","e","s","t">>, "Manifest", "body-d4")

VersionsOK ==
  [err |-> "", included |-> <<[type |-> "provider-versions", id |-> "pv10", version |-> V_10]>>]

Registry(versions, guides, resources, listErr) ==
  [versions |-> versions, pages |-> (C_guides :> guides) @@ (C_resources :> resources),
   listErr |-> listErr]

R_ok == Registry(VersionsOK, << <<D1>> >>, << <<D2, D1>> >>, {})
\* d1 is listed on two pages of guides and once more under resources
R_repeat == Registry(VersionsOK, << <<D1>>, <<D1>> >>, << <<D2, D1>> >>, {})

R_collision == Registry(VersionsOK, << <<D1>> >>, << <<D2>>, <<D3>> >>, {})
R_manifestSlug == Registry(VersionsOK, << <<D1>> >>, << <<D4>> >>, {})
R_noVersion ==
  Registry([err |-> "", included |-> <<[type |-> "provider-versions", id |-> "pv20", version |-> V_20]>>],
           << <<D1>> >>, << <<D2>> >>, {})
R_listErr == Registry(VersionsOK, << <<D1>> >>, << <<D2>> >>, {<<C_resources, 1>>})
R_detailErr == Registry(VersionsOK, << <<D1>> >>, << <<[D2 EXCEPT !.getErr = TRUE]>> >>, {})

\* the cached detail of d2 is undecodable, GetJSON recovers it, and the second
\* Get returns no bytes
R_renderErr ==
  Registry(VersionsOK, << <<D1>> >>,
           << <<[D2 EXCEPT !.corrupt = TRUE, !.raw2Valid = FALSE, !.raw2Empty = TRUE]>> >>, {})

\* the cached detail of d2 is undecodable and GetJSON fails with NotFound
R_jsonErr ==
  Registry(VersionsOK, << <<D1>> >>,
           << <<[D2 EXCEPT !.corrupt = TRUE, !.jsonErr = TRUE, !.jsonErrIs = "NotFoundError"]>> >>, {})

\* the cached detail of d2 is undecodable, GetJSON recovers it, the second
\* Get fails
R_get2Err ==
  Registry(VersionsOK, << <<D1>> >>, << <<[D2 EXCEPT !.corrupt = TRUE, !.get2Err = TRUE]>> >>, {})

\* the cached detail of d2 is undecodable, GetJSON recovers it, the second
\* Get returns the refetched payload
R_recovered ==
  Registry(VersionsOK, << <<D1>> >>, << <<[D2 EXCEPT !.corrupt = TRUE]>> >>, {})

Registries ==
  {R_ok, R_repeat, R_collision, R_manifestSlug, R_noVersion, R_listErr, R_detailErr, R_renderErr,
   R_jsonErr, R_get2Err, R_recovered}

Blob(v) == [t |-> "blob", v |-> v]

\* f with a regular file at path p, its parent directories created
WithFile(f, p, d) == WriteFile(MkdirAll(f, Dir(p)).fs, p, d).fs

\* f with a symbolic link at path p to the physical directory to
WithLink(f, p, to) == (Elems(p) :> LinkNode(to)) @@ MkdirAll(f, Dir(p)).fs

\* the root, the output root's parents and an external directory /v
FsBase == MkdirAll(MkdirAll((<<>> :> DirNode), <<"/","t","/","l">>).fs, <<"/","v">>).fs

P_staleOwn == <<"/","t","/","l","/","o","/","t","e","r","r","a","f","o","r","m","/","h","c","/","a","w","s","/","1",".","0","/","d","o","c","s","/","g","u","i","d","e","s","/","s","t","a","l","e",".","m","d">>
P_staleCustom == <<"/","t","/","l","/","o","/","c","u","s","t","o","m","/","g","u","i","d","e","s","/","s","t","a","l","e",".","m","d">>
P_legacyManifest == <<"/","t","/","l","/","o","/","t","e","r","r","a","f","o","r","m","/","a","w","s","/","1",".","0","/","d","o","c","s","/","_","m","a","n","i","f","e","s","t",".","j","s","o","n">>
P_keep == <<"/","t","/","l","/","o","/","k","e","e","p",".","t","x","t">>
P_victim == <<"/","v","/","h","c","/","a","w","s","/","1",".","0","/","d","o","c","s","/","v","i","c","t","i","m",".","t","x","t">>
P_victimCustom == <<"/","v","/","g","u","i","d","e","s","/","v","i","c","t","i","m",".","m","d">>
P_victimAncestor == <<"/","v","/","o","/","t","e","r","r","a","f","o","r","m","/","h","c","/","a","w","s","/","1",".","0","/","d","o","c","s","/","g","u","i","d","e","s","/","v","i","c","t","i","m",".","m","d">>

\* stale output of earlier runs, a legacy flat manifest, an unrelated file
Fs_stale ==
  WithFile(WithFile(WithFile(WithFile(FsBase, P_staleOwn, Blob("stale")),
                             P_staleCustom, Blob("stale")),
                    P_legacyManifest, Blob("legacy-other")),
           P_keep, Blob("keep"))

\* {out}/terraform is a symbolic link to /v
Fs_linkTerraform ==
  WithLink(WithFile(WithFile(FsBase, P_victim, Blob("victim")), P_staleCustom, Blob("stale")),
           <<"/","t","/","l","/","o","/","t","e","r","r","a","f","o","r","m">>, <<<<"v">>>>)

\* {out}/custom is a symbolic link to /v
Fs_linkCustom ==
  WithLink(WithFile(WithFile(FsBase, P_victimCustom, Blob("victim")), P_staleOwn, Blob("stale")),
           <<"/","t","/","l","/","o","/","c","u","s","t","o","m">>, <<<<"v">>>>)

\* /t/l, an ancestor of the output root two levels under the root, is a
\* symbolic link to /v
Fs_linkAncestor ==
  WithLink(WithFile(MkdirAll((<<>> :> DirNode), <<"/","t">>).fs, P_victimAncestor, Blob("victim")),
           <<"/","t","/","l">>, <<<<"v">>>>)

P_tagDoc == <<"/","t","/","l","/","o","/","t","e","r","r","a","f","o","r","m","/","h","c","/","a","w","s","/","1",".","0","/","d","o","c","s","/","g","u","i","d","e","s","/","t","a","g",".","m","d">>
P_s3Doc == <<"/","t","/","l","/","o","/","t","e","r","r","a","f","o","r","m","/","h","c","/","a","w","s","/","1",".","0","/","d","o","c","s","/","r","e","s","o","u","r","c","e","s","/","s","3",".","m","d">>

\* an older file of document d1, and a directory where the file of document
\* d2 goes
Fs_dirAtSecondDoc == MkdirAll(WithFile(Fs_stale, P_tagDoc, Blob("old")), P_s3Doc).fs

\* a directory stands where the file of document d1 goes
Fs_dirAtDoc == MkdirAll(Fs_stale, P_tagDoc).fs

FileSystems ==
  {Fs_stale, Fs_linkTerraform, Fs_linkCustom, Fs_linkAncestor, Fs_dirAtSecondDoc, Fs_dirAtDoc}

\* the registry and the file system of a behaviour: every file system with
\* the plain registry, every registry with the plain file system
Scenes == { <<R_ok, f>> : f \in FileSystems } \cup { <<r, Fs_stale>> : r \in Registries }

\* ------------------------------------------------------------------------
\* state
\* ------------------------------------------------------------------------

VARIABLES
  opts0,        \* the options of the invocation, as the caller wrote them
  opts,         \* the caller's ExportOptions value (Preflight normalises it in place)
  reg,          \* the registry
  fs,           \* the file system
  fsStart,      \* the file system when the current run began
  pc,           \* position in runProviderExport / ExportDocs
  run,          \* number of the current run, which is also the clock
  cacheInit,    \* whether buildRegistryClient initialised the cache in this run
  o,            \* ExportDocs: opts after prepareExportOptions
  ext,          \* ExportDocs: file extension
  pvid,         \* ExportDocs: providerVersionID
  catIdx,       \* ExportDocs: index of the category being listed
  page,         \* ExportDocs: page number being listed
  docs,         \* ExportDocs: documents of the current page still to process
  seen,         \* ExportDocs: seen document IDs
  planned,      \* ExportDocs: planned files
  pathOwners,   \* ExportDocs: path -> owner
  cleanTargets, \* ExportDocs: clean targets still to delete
  manifestDocs, \* ExportDocs: manifest items of the files written so far
  result,       \* what the run returned: error kind, message, summary
  calls,        \* the registry client calls of this run, in order
  fsLog,        \* the MkdirAll / WriteFile / RemoveAll calls of this run, in order
  pin,          \* the arguments of a direct call of a path function
  pout,         \* the function called directly and what it returned
  locks,        \* runLockfileExport: the providers of the lock file
  lockIdx,      \* runLockfileExport: index of the provider being exported
  summaries,    \* runLockfileExport: the summaries of the finished exports
  batch,        \* what runLockfileExport returned: error kind, message, summaries
  batchLog,     \* the calls and returns of ExportDocs in the batch, in order
  store,        \* cache.Store: enabled, ttl
  cacheDir,          \* the cache directory
  now,          \* the wall clock
  hist,         \* the calls of the store or of the client, with what they returned
  net,          \* the registry server: the responses it will give, in order
  procs,        \* the processes that use one cache directory at the same time
  client,       \* registry.Client: retry
  spinner,      \* progress.Spinner: its fields, and its goroutine
  out           \* what has been written to the writer of the spinner

vars == <<opts0, opts, reg, fs, fsStart, pc, run, cacheInit, o, ext, pvid, catIdx,
          page, docs, seen, planned, pathOwners, cleanTargets, manifestDocs, result,
          calls, fsLog, pin, pout, locks, lockIdx, summaries, batch, batchLog,
          store, cacheDir, now, hist, net, procs, client, spinner, out>>

inputVars == <<opts0, reg>>
lockVars == <<locks, lockIdx, summaries, batch, batchLog>>

\* the state of the parts of the program that a behaviour does not run
cacheVars == <<store, cacheDir, now, hist, net, procs, client>>
spinVars == <<spinner, out>>
sideVars == <<lockVars, cacheVars, spinVars>>
callVars == <<pin, pout, sideVars>>
planVars == <<catIdx, page, docs, seen, planned, pathOwners>>

NoSummary == [Provider |-> <<>>, Version |-> <<>>, OutDir |-> <<>>, Written |-> 0, Manifest |-> <<>>]
NoResult == [err |-> "", msg |-> "", path |-> <<>>, summary |-> NoSummary]
Failure(kind, msg) == [err |-> kind, msg |-> msg, path |-> <<>>, summary |-> NoSummary]

\* a WriteError{Path: path} is a failure that carries the path
FailureAt(kind, msg, path) ==
  [Failure(kind, msg) EXCEPT !.path = IF kind = "WriteError" THEN path ELSE <<>>]

NoOpts ==
  [Namespace |-> <<>>, Name |-> <<>>, Version |-> <<>>, Format |-> <<>>, OutDir |-> <<>>,
   Categories |-> <<>>, PathTemplate |-> <<>>, Clean |-> FALSE]

\* no direct call of a path function
NoPathInput == [template |-> <<>>, vars |-> <<>>, outDir |-> <<>>]
NoCall == [fn |-> "", res |-> [ok |-> FALSE, val |-> <<>>, err |-> ""]]

NoBatch == [err |-> "", msg |-> "", summaries |-> <<>>]

\* no lock file, no cache, no registry client, no spinner
NoSide ==
  /\ locks = <<>> /\ lockIdx = 0 /\ summaries = <<>> /\ batch = NoBatch /\ batchLog = <<>>
  /\ store = [enabled |-> FALSE, ttl |-> 0] /\ cacheDir = <<>> /\ now = 0 /\ hist = <<>>
  /\ net = <<>> /\ procs = <<>> /\ client = <<>> /\ spinner = <<>> /\ out = <<>>

\* the locals of ExportDocs before it has run
FreshLocals ==
  /\ o = NoOpts /\ ext = <<>> /\ pvid = ""
  /\ catIdx = 0 /\ page = 0 /\ docs = <<>> /\ seen = {} /\ planned = <<>>
  /\ pathOwners = <<>> /\ cleanTargets = <<>> /\ manifestDocs = <<>>
  /\ result = NoResult /\ calls = <<>> /\ fsLog = <<>> /\ cacheInit = FALSE

Init ==
  /\ opts0 \in OptionInputs
  /\ opts = opts0
  /\ \E sc \in Scenes : reg = sc[1] /\ fs = sc[2]
  /\ fsStart = fs
  /\ pc = "idle"
  /\ run = 1
  /\ FreshLocals
  /\ NoSide
  /\ pin = NoPathInput
  /\ pout = NoCall

\* ------------------------------------------------------------------------
\* internal/cli/cli.go: runProviderExport without a lockfile
\* ------------------------------------------------------------------------

\* the run returns res
Return(res) ==
  /\ pc' = "done"
  /\ result' = res

\* PreflightExportOptions(&opts), before the client is built
CliPreflight ==
  /\ pc = "idle"
  /\ \E p \in {prepareExportOptions(fs, opts)} :
       /\ opts' = p.opts
       /\ IF p.ok THEN pc' = "cli_client" /\ result' = result
          ELSE Return(Failure(p.err, p.msg))
  /\ UNCHANGED <<inputVars, callVars, fs, fsStart, run, cacheInit, o, ext, pvid, planVars,
                 cleanTargets, manifestDocs, calls, fsLog>>

\* buildRegistryClient: cache.NewStore initialises the cache directory
CliBuildRegistryClient ==
  /\ pc = "cli_client"
  /\ cacheInit' = TRUE
  /\ pc' = "export"
  /\ UNCHANGED <<inputVars, callVars, opts, fs, fsStart, run, o, ext, pvid, planVars,
                 cleanTargets, manifestDocs, result, calls, fsLog>>

\* ------------------------------------------------------------------------
\* internal/provider/export.go: ExportDocs, one action per step
\* ------------------------------------------------------------------------

\* prepareExportOptions on ExportDocs's copy of the options; ExportDocs is
\* entered from the CLI ("export") or called directly ("idle")
Prepare ==
  /\ pc \in {"idle", "export"}
  /\ \E p \in {prepareExportOptions(fs, opts)} :
       IF p.ok
       THEN /\ o' = p.opts /\ ext' = p.ext /\ pc' = "resolve" /\ result' = result
       ELSE /\ Return(Failure(p.err, p.msg)) /\ o' = o /\ ext' = ext
  /\ UNCHANGED <<inputVars, callVars, opts, fs, fsStart, run, cacheInit, pvid, planVars,
                 cleanTargets, manifestDocs, calls, fsLog>>

\* resolveProviderVersionID, then the empty seen set, plan and path owners
Resolve ==
  /\ pc = "resolve"
  /\ calls' = Append(calls, [op |-> "GetJSON", what |-> "versions", key |-> o.Name, page |-> 0])
  /\ \E r \in {resolveProviderVersionID(reg.versions, o.Version)} :
       IF r.err # ""
       THEN /\ Return(Failure(r.err, "provider version"))
            /\ UNCHANGED <<pvid, planVars>>
       ELSE /\ pvid' = r.id
            /\ seen' = {} /\ planned' = <<>>
            /\ pathOwners' = <<[path |-> manifestPathForOptions(o), owner |-> reservedManifestPathOwner]>>
            /\ catIdx' = 1 /\ page' = 1 /\ docs' = <<>>
            /\ pc' = "list" /\ result' = result
  /\ UNCHANGED <<inputVars, callVars, opts, fs, fsStart, run, cacheInit, o, ext,
                 cleanTargets, manifestDocs, fsLog>>

\* the position after planning: sort, then clean or write
AfterPlanning == "sort"

\* listProviderDocs for the current category and page, with a seen-set that
\* is emptied when a category ends
ListPageForgetting ==
  /\ pc = "list"
  /\ \E category \in {o.Categories[catIdx]} :
     \E r \in {listProviderDocs(reg, category, page)} :
       /\ calls' = Append(calls, [op |-> "GetJSON", what |-> "list", key |-> category, page |-> page])
       /\ IF r.err # ""
          THEN /\ Return(Failure(r.err, "list"))
               /\ UNCHANGED <<catIdx, page, docs, seen>>
          ELSE /\ result' = result
               /\ IF r.docs = <<>>
                  THEN /\ docs' = <<>> /\ page' = 1 /\ catIdx' = catIdx + 1
                       /\ seen' = {}
                       /\ pc' = IF catIdx = Len(o.Categories) THEN AfterPlanning ELSE "list"
                  ELSE /\ docs' = r.docs /\ pc' = "doc" /\ UNCHANGED <<catIdx, page, seen>>
  /\ UNCHANGED <<inputVars, callVars, opts, fs, fsStart, run, cacheInit, o, ext, pvid, planned,
                 pathOwners, cleanTargets, manifestDocs, fsLog>>

\* listProviderDocs for the current category and page, with a page number
\* that runs on into the next category
ListPageRunningOn ==
  /\ pc = "list"
  /\ \E category \in {o.Categories[catIdx]} :
     \E r \in {listProviderDocs(reg, category, page)} :
       /\ calls' = Append(calls, [op |-> "GetJSON", what |-> "list", key |-> category, page |-> page])
       /\ IF r.err # ""
          THEN /\ Return(Failure(r.err, "list"))
               /\ UNCHANGED <<catIdx, page, docs>>
          ELSE /\ result' = result
               /\ IF r.docs = <<>>
                  THEN /\ docs' = <<>> /\ page' = page /\ catIdx' = catIdx + 1
                       /\ pc' = IF catIdx = Len(o.Categories) THEN AfterPlanning ELSE "list"
                  ELSE /\ docs' = r.docs /\ pc' = "doc" /\ UNCHANGED <<catIdx, page>>
  /\ UNCHANGED <<inputVars, callVars, opts, fs, fsStart, run, cacheInit, o, ext, pvid, seen, planned,
                 pathOwners, cleanTargets, manifestDocs, fsLog>>

\* a loop over the pages that starts a category again at its empty page
ListPageAgain ==
  /\ pc = "list"
  /\ \E category \in {o.Categories[catIdx]} :
     \E r \in {listProviderDocs(reg, category, page)} :
       IF r.err # ""
       THEN /\ Return(Failure(r.err, "list"))
            /\ UNCHANGED <<catIdx, page, docs>>
       ELSE /\ result' = result
            /\ IF r.docs = <<>>
               THEN /\ docs' = <<>> /\ page' = 1 /\ pc' = "list" /\ UNCHANGED catIdx
               ELSE /\ docs' = r.docs /\ pc' = "doc" /\ UNCHANGED <<catIdx, page>>
  /\ UNCHANGED <<inputVars, callVars, opts, fs, fsStart, run, cacheInit, o, ext, pvid, seen, planned,
                 pathOwners, cleanTargets, manifestDocs, fsLog, calls>>

\* listProviderDocs for the current category and page
ListPage ==
  /\ pc = "list"
  /\ \E category \in {o.Categories[catIdx]} :
     \E r \in {listProviderDocs(reg, category, page)} :
       /\ calls' = Append(calls, [op |-> "GetJSON", what |-> "list", key |-> category, page |-> page])
       /\ IF r.err # ""
          THEN /\ Return(Failure(r.err, "list"))
               /\ UNCHANGED <<catIdx, page, docs>>
          ELSE /\ result' = result
               /\ IF r.docs = <<>>
                  THEN /\ docs' = <<>> /\ page' = 1 /\ catIdx' = catIdx + 1
                       /\ pc' = IF catIdx = Len(o.Categories) THEN AfterPlanning ELSE "list"
                  ELSE /\ docs' = r.docs /\ pc' = "doc" /\ UNCHANGED <<catIdx, page>>
  /\ UNCHANGED <<inputVars, callVars, opts, fs, fsStart, run, cacheInit, o, ext, pvid, seen, planned,
                 pathOwners, cleanTargets, manifestDocs, fsLog>>

\* a lookup that finds no owner
OwnerOfNobody(owners, path) == ""

\* pathOwners[path], or "" when path has no owner
OwnerOf(owners, path) ==
  IF \E i \in DOMAIN owners : owners[i].path = path
  THEN (owners[CHOOSE i \in DOMAIN owners : owners[i].path = path]).owner
  ELSE ""

\* the placeholder values of one document
DocVars(op, e, category, detail, slug) ==
  LET cat == sanitizeSegment(detail.Category)
  IN KnownVars(op, e)
     @@ (K_category :> IF cat = W_unknown THEN sanitizeSegment(category) ELSE cat)
     @@ (K_slug :> sanitizeSegment(slug))
     @@ (K_doc_id :> sanitizeSegment(detail.ID))

\* the slug of a document, the summary's first
DocSlugOfListing(doc, detail) ==
  IF doc.listSlug # <<>> THEN doc.listSlug
  ELSE IF detail.Slug # <<>> THEN detail.Slug
  ELSE detail.ID

\* the slug of a document: the detail's, else the summary's, else the ID
DocSlug(doc, detail) ==
  IF detail.Slug # <<>> THEN detail.Slug
  ELSE IF doc.listSlug # <<>> THEN doc.listSlug
  ELSE detail.ID

\* the body of the loop over the documents of a page, for the next document
PlanDoc ==
  /\ pc = "doc"
  /\ docs # <<>>
  /\ LET doc == Head(docs)
         more == Tail(docs)
         next == IF more = <<>> THEN "list" ELSE "doc"
         nextPage == IF more = <<>> THEN page + 1 ELSE page
         fail(res) == /\ Return(res)
                      /\ UNCHANGED <<docs, page, planned, pathOwners>>
     IN IF doc.ID \in seen
        THEN /\ docs' = more /\ pc' = next /\ page' = nextPage
             /\ UNCHANGED <<seen, planned, pathOwners, calls, result>>
        ELSE \E g \in {getProviderDocDetail(doc)} :
             \E slug \in {DocSlug(doc, g.detail)} :
             \E bp \in {BuildOutputPath(fs, o.PathTemplate,
                                        DocVars(o, ext, o.Categories[catIdx], g.detail, slug),
                                        o.OutDir)} :
             \E owner \in {OwnerOf(pathOwners, bp.val)} :
             \E rc \in {renderContent(o.Format, g.detail, g.raw)} :
             \E rel \in {Rel(o.OutDir, bp.val)} :
               /\ seen' = seen \cup {doc.ID}
               /\ calls' = calls \o g.calls
               /\ IF g.err # "" THEN fail(Failure(g.err, "detail"))
                  ELSE IF ~bp.ok THEN fail(Failure("ValidationError", bp.err))
                  ELSE IF owner = reservedManifestPathOwner
                       THEN fail(Failure("ValidationError", "conflicts with reserved manifest path"))
                  ELSE IF owner # "" THEN fail(Failure("ValidationError", "path collision detected"))
                  ELSE IF rc.err # "" THEN fail(Failure(rc.err, "render"))
                  ELSE /\ pathOwners' = Append(pathOwners, [path |-> bp.val, owner |-> g.detail.ID])
                       /\ planned' = Append(planned,
                             [path |-> bp.val, content |-> rc.data,
                              item |-> [DocID |-> g.detail.ID, Category |-> g.detail.Category,
                                        Slug |-> slug, Title |-> g.detail.Title,
                                        Path |-> IF rel.ok THEN rel.val ELSE bp.val]])
                       /\ docs' = more /\ pc' = next /\ page' = nextPage
                       /\ result' = result
  /\ UNCHANGED <<inputVars, callVars, opts, fs, fsStart, run, cacheInit, o, ext, pvid, catIdx,
                 cleanTargets, manifestDocs, fsLog>>

\* the position at which the files are written, or the manifest when there
\* is no file
WritePos(pl) == IF pl = <<>> THEN "manifest" ELSE "write"

\* sort.Slice(planned) by manifest path
Sort ==
  /\ pc = "sort"
  /\ planned' = SortPlanned(Range(planned))
  /\ pc' = IF o.Clean THEN "clean" ELSE WritePos(planned)
  /\ UNCHANGED <<inputVars, callVars, opts, fs, fsStart, run, cacheInit, o, ext, pvid, catIdx,
                 page, docs, seen, pathOwners, cleanTargets, manifestDocs, result, calls, fsLog>>

\* deriveCleanTargets, when clean is requested
DeriveClean ==
  /\ pc = "clean"
  /\ \E r \in deriveCleanTargets(o, ext) :
       IF r.ok
       THEN /\ cleanTargets' = r.val /\ pc' = "rm" /\ result' = result
       ELSE /\ Return(Failure(r.err, r.msg))
            /\ cleanTargets' = cleanTargets
  /\ UNCHANGED <<inputVars, callVars, opts, fs, fsStart, run, cacheInit, o, ext, pvid, planVars,
                 manifestDocs, calls, fsLog>>

\* the body of the loop over the clean targets: symlink check, os.RemoveAll
CleanTarget ==
  /\ pc = "rm"
  /\ cleanTargets # <<>>
  /\ \E target \in {Head(cleanTargets)} :
       IF ensureNoSymlinkTraversal(fs, o.OutDir, target) # ""
       THEN /\ Return(Failure("ValidationError", "unsafe --clean target"))
            /\ UNCHANGED <<fs, fsLog, cleanTargets>>
       ELSE \E rm \in {RemoveAll(fs, target)} :
            /\ fsLog' = Append(fsLog, [op |-> "RemoveAll", path |-> target])
            /\ fs' = rm.fs
            /\ IF rm.err # ""
               THEN /\ Return(FailureAt("WriteError", "clean", target))
                    /\ cleanTargets' = cleanTargets
               ELSE /\ cleanTargets' = Tail(cleanTargets)
                    /\ pc' = IF Tail(cleanTargets) = <<>> THEN WritePos(planned) ELSE "rm"
                    /\ result' = result
  /\ UNCHANGED <<inputVars, callVars, opts, fsStart, run, cacheInit, o, ext, pvid, planVars,
                 manifestDocs, calls>>

\* a write loop whose WriteError carries no path
writePlannedFileUnnamed(f, outDir, pf) ==
  IF ensureNoSymlinkTraversal(f, outDir, pf.path) # ""
  THEN [err |-> "ValidationError", msg |-> "unsafe output path", path |-> <<>>,
        fs |-> f, log |-> <<>>]
  ELSE Let(MkdirAll(f, Dir(pf.path)), LAMBDA mk :
         IF mk.err # ""
         THEN [err |-> "WriteError", msg |-> "mkdir", path |-> <<>>, fs |-> mk.fs,
               log |-> <<[op |-> "MkdirAll", path |-> Dir(pf.path)]>>]
         ELSE Let(WriteFile(mk.fs, pf.path, pf.content), LAMBDA wr :
                [err |-> IF wr.err # "" THEN "WriteError" ELSE "",
                 msg |-> IF wr.err # "" THEN "write" ELSE "",
                 path |-> <<>>,
                 fs |-> wr.fs,
                 log |-> <<[op |-> "MkdirAll", path |-> Dir(pf.path)],
                           [op |-> "WriteFile", path |-> pf.path]>>]))

\* a write loop that does not check its path again
writePlannedFileUnchecked(f, outDir, pf) ==
  Let(MkdirAll(f, Dir(pf.path)), LAMBDA mk :
    IF mk.err # ""
    THEN [err |-> "WriteError", msg |-> "mkdir", path |-> pf.path, fs |-> mk.fs,
          log |-> <<[op |-> "MkdirAll", path |-> Dir(pf.path)]>>]
    ELSE Let(WriteFile(mk.fs, pf.path, pf.content), LAMBDA wr :
           [err |-> IF wr.err # "" THEN "WriteError" ELSE "",
            msg |-> IF wr.err # "" THEN "write" ELSE "",
            path |-> IF wr.err # "" THEN pf.path ELSE <<>>,
            fs |-> wr.fs,
            log |-> <<[op |-> "MkdirAll", path |-> Dir(pf.path)],
                      [op |-> "WriteFile", path |-> pf.path]>>]))

\* the body of the loop over the planned files: symlink check, MkdirAll of
\* the parent, WriteFile; a failed call is a WriteError with the file's path
writePlannedFile(f, outDir, pf) ==
  IF ensureNoSymlinkTraversal(f, outDir, pf.path) # ""
  THEN [err |-> "ValidationError", msg |-> "unsafe output path", path |-> <<>>,
        fs |-> f, log |-> <<>>]
  ELSE Let(MkdirAll(f, Dir(pf.path)), LAMBDA mk :
         IF mk.err # ""
         THEN [err |-> "WriteError", msg |-> "mkdir", path |-> pf.path, fs |-> mk.fs,
               log |-> <<[op |-> "MkdirAll", path |-> Dir(pf.path)]>>]
         ELSE Let(WriteFile(mk.fs, pf.path, pf.content), LAMBDA wr :
                [err |-> IF wr.err # "" THEN "WriteError" ELSE "",
                 msg |-> IF wr.err # "" THEN "write" ELSE "",
                 path |-> IF wr.err # "" THEN pf.path ELSE <<>>,
                 fs |-> wr.fs,
                 log |-> <<[op |-> "MkdirAll", path |-> Dir(pf.path)],
                           [op |-> "WriteFile", path |-> pf.path]>>]))

\* one turn of the loop over the planned files
WritePlanned ==
  /\ pc = "write"
  /\ Len(manifestDocs) < Len(planned)
  /\ \E pf \in {planned[Len(manifestDocs) + 1]} :
     \E w \in {writePlannedFile(fs, o.OutDir, pf)} :
       /\ fs' = w.fs
       /\ fsLog' = fsLog \o w.log
       /\ IF w.err # ""
          THEN /\ Return(FailureAt(w.err, w.msg, w.path))
               /\ manifestDocs' = manifestDocs
          ELSE /\ manifestDocs' = Append(manifestDocs, pf.item)
               /\ pc' = IF Len(manifestDocs') = Len(planned) THEN "manifest" ELSE "write"
               /\ result' = result
  /\ UNCHANGED <<inputVars, callVars, opts, fsStart, run, cacheInit, o, ext, pvid, planVars,
                 cleanTargets, calls>>

\* writeManifest and the summary
WriteManifest ==
  /\ pc = "manifest"
  /\ \E w \in {writeManifest(fs, o, manifestDocs, run)} :
     \E rel \in {Rel(o.OutDir, w.path)} :
       /\ fs' = w.fs
       /\ fsLog' = fsLog \o w.log
       /\ IF w.err # "" THEN Return(FailureAt(w.err, "manifest", w.path))
          ELSE Return([err |-> "", msg |-> "", path |-> <<>>,
                       summary |-> [Provider |-> sanitizeSegment(o.Name), Version |-> o.Version,
                                    OutDir |-> o.OutDir, Written |-> Len(planned),
                                    Manifest |-> Join(o.OutDir, IF rel.ok THEN rel.val ELSE w.path)]])
  /\ UNCHANGED <<inputVars, callVars, opts, fsStart, run, cacheInit, o, ext, pvid, planVars,
                 cleanTargets, manifestDocs, calls>>

\* the same export is invoked again, later, with the options as the caller
\* wrote them
Rerun ==
  /\ pc = "done"
  /\ run < MaxRuns
  /\ run' = run + 1
  /\ opts' = opts0
  /\ fsStart' = fs
  /\ pc' = "idle"
  /\ o' = NoOpts /\ ext' = <<>> /\ pvid' = ""
  /\ catIdx' = 0 /\ page' = 0 /\ docs' = <<>> /\ seen' = {} /\ planned' = <<>>
  /\ pathOwners' = <<>> /\ cleanTargets' = <<>> /\ manifestDocs' = <<>>
  /\ result' = NoResult /\ calls' = <<>> /\ fsLog' = <<>> /\ cacheInit' = FALSE
  /\ UNCHANGED <<inputVars, callVars, fs>>

Next ==
  \/ CliPreflight
  \/ CliBuildRegistryClient
  \/ Prepare
  \/ Resolve
  \/ ListPage
  \/ PlanDoc
  \/ Sort
  \/ DeriveClean
  \/ CleanTarget
  \/ WritePlanned
  \/ WriteManifest
  \/ Rerun

Spec == Init /\ [][Next]_vars


\* ------------------------------------------------------------------------
\* direct calls of BuildOutputPath and renderPathTemplate, on templates made
\* of a few pieces and on variable values that carry "..", an absolute path
\* or placeholder-shaped text
\* ------------------------------------------------------------------------

\* the longest template, counted in pieces
MaxPieces == 3

Pieces == {PH(K_out), PH(K_slug), PH(K_namespace), <<Sep>>, DotDot, <<"x">>}

PathTemplates ==
  { Flatten(sq) : sq \in UNION { [1..k -> Pieces] : k \in 1..MaxPieces } }

SlugValues == {<<"a">>, <<".",".","/",".",".">>, <<"/","v">>, PH(K_namespace)}
NamespaceValues == {N_hc, PH(K_slug)}
OutDirs == {P_out, <<"o">>}

PathInputs ==
  { [template |-> tp, outDir |-> od,
     vars |-> (K_out :> od) @@ (K_slug :> sv) @@ (K_namespace :> nv)] :
      tp \in PathTemplates, od \in OutDirs, sv \in SlugValues, nv \in NamespaceValues }

mainVars == <<opts0, opts, reg, fs, fsStart, pc, run, cacheInit, o, ext, pvid, catIdx,
              page, docs, seen, planned, pathOwners, cleanTargets, manifestDocs, result,
              calls, fsLog>>

InitPath ==
  /\ pin \in PathInputs
  /\ pout = NoCall
  /\ opts0 = BaseOptions
  /\ opts = opts0
  /\ reg = R_ok
  /\ fs = Fs_stale
  /\ fsStart = fs
  /\ pc = "idle"
  /\ run = 1
  /\ FreshLocals
  /\ NoSide

\* BuildOutputPath(template, vars, outDir)
CallBuildOutputPath ==
  /\ pout = NoCall
  /\ pout' = [fn |-> "BuildOutputPath",
              res |-> BuildOutputPath(fs, pin.template, pin.vars, pin.outDir)]
  /\ UNCHANGED <<mainVars, pin, sideVars>>

\* renderPathTemplate(template, vars)
CallRenderPathTemplate ==
  /\ pout = NoCall
  /\ pout' = [fn |-> "renderPathTemplate", res |-> renderPathTemplate(pin.template, pin.vars)]
  /\ UNCHANGED <<mainVars, pin, sideVars>>

NextPath ==
  \/ CallBuildOutputPath
  \/ CallRenderPathTemplate

SpecPath == InitPath /\ [][NextPath]_vars


\* ------------------------------------------------------------------------
\* direct calls of the path functions on templates with stray, nested and
\* empty braces and with a placeholder that has no variable
\* ------------------------------------------------------------------------

K_unknown_placeholder == <<"n","-","a">>

BracePieces == {<<"{">>, <<"}">>, PH(K_slug), PH(K_unknown_placeholder), <<Sep>>, <<"x">>}

BraceTemplates ==
  { Flatten(sq) : sq \in UNION { [1..k -> BracePieces] : k \in 1..MaxPieces } }

BraceValues == {<<"a">>, PH(K_namespace), <<"}","{">>}

BraceInputs ==
  { [template |-> tp, outDir |-> P_out,
     vars |-> (K_out :> P_out) @@ (K_slug :> sv) @@ (K_namespace :> N_hc)] :
      tp \in BraceTemplates, sv \in BraceValues }

InitBraces ==
  /\ pin \in BraceInputs
  /\ pout = NoCall
  /\ opts0 = BaseOptions
  /\ opts = opts0
  /\ reg = R_ok
  /\ fs = Fs_stale
  /\ fsStart = fs
  /\ pc = "idle"
  /\ run = 1
  /\ FreshLocals
  /\ NoSide

SpecBraces == InitBraces /\ [][NextPath]_vars

\* ------------------------------------------------------------------------
\* direct calls of normalizeCategories on lists of comma-separated tokens
\* ------------------------------------------------------------------------

\* the longest category list, counted in elements
MaxInputs == 2

RawCategories ==
  { <<"a","l","l">>, <<"b","o","g","u","s">>, <<"g","u","i","d","e","s">>, <<" ","G","u","i","d","e","s"," ">>, <<>>, <<",">>, <<"a","l","l",",","b","o","g","u","s">>, <<"b","o","g","u","s",",","a","l","l">>,
    <<"g","u","i","d","e","s",",","r","e","s","o","u","r","c","e","s",",","g","u","i","d","e","s">>, <<"r","e","s","o","u","r","c","e","s",","," ","A","L","L">>, <<"f","u","n","c","t","i","o","n","s">> }

CategoryInputs ==
  { [categories |-> sq] : sq \in UNION { [1..k -> RawCategories] : k \in 0..MaxInputs } }

InitCategories ==
  /\ pin \in CategoryInputs
  /\ pout = NoCall
  /\ opts0 = BaseOptions
  /\ opts = opts0
  /\ reg = R_ok
  /\ fs = Fs_stale
  /\ fsStart = fs
  /\ pc = "idle"
  /\ run = 1
  /\ FreshLocals
  /\ NoSide

\* normalizeCategories(input)
CallNormalizeCategories ==
  /\ pout = NoCall
  /\ pout' = [fn |-> "normalizeCategories", res |-> normalizeCategories(pin.categories)]
  /\ UNCHANGED <<mainVars, pin, sideVars>>

NextCategories == CallNormalizeCategories

SpecCategories == InitCategories /\ [][NextCategories]_vars

\* ------------------------------------------------------------------------
\* internal/cli/cli.go: runLockfileExport, the export of every provider of
\* a lock file; the list of locks is the one ParseFile returned, after the
\* name filter
\* ------------------------------------------------------------------------

\* the longest lock file, counted in providers
MaxLocks == 2

L_aws == [Namespace |-> N_hc, Name |-> <<"a","w","s">>, Version |-> V_10]
L_gcp == [Namespace |-> N_hc, Name |-> <<"g","c","p">>, Version |-> V_10]
\* provider "registry.terraform.io/hc/gcp" { version = "" }
L_blank == [Namespace |-> N_hc, Name |-> <<"g","c","p">>, Version |-> <<>>]

\* a provider of the lock file and what the registry answers for it
LockScenes ==
  { [lock |-> L_aws, reg |-> R_ok], [lock |-> L_gcp, reg |-> R_ok],
    [lock |-> L_gcp, reg |-> R_noVersion], [lock |-> L_blank, reg |-> R_ok] }

LockFiles == UNION { [1..k -> LockScenes] : k \in 0..MaxLocks }

\* the options runProviderExport hands over: no namespace, name or version
LockBaseOptions ==
  { [BaseOptions EXCEPT !.Namespace = <<>>, !.Name = <<>>, !.Version = <<>>, !.Clean = cl] :
      cl \in BOOLEAN }

\* opts := baseOpts with the namespace, name and version of the lock
OptionsOfLock(baseOpts, lock) ==
  [baseOpts EXCEPT !.Namespace = lock.Namespace, !.Name = lock.Name, !.Version = lock.Version]

InitLock ==
  /\ opts0 \in LockBaseOptions
  /\ opts = opts0
  /\ locks \in LockFiles
  /\ reg = R_ok
  /\ fs \in {Fs_stale, Fs_dirAtSecondDoc}
  /\ fsStart = fs
  /\ pc = "lock_idle"
  /\ run = 1
  /\ FreshLocals
  /\ lockIdx = 0 /\ summaries = <<>> /\ batch = NoBatch /\ batchLog = <<>>
  /\ store = [enabled |-> FALSE, ttl |-> 0] /\ cacheDir = <<>> /\ now = 0 /\ hist = <<>>
  /\ net = <<>> /\ procs = <<>> /\ client = <<>> /\ spinner = <<>> /\ out = <<>>
  /\ pin = NoPathInput
  /\ pout = NoCall

\* runLockfileExport returns res
ReturnBatch(res) ==
  /\ pc' = "batch_done"
  /\ batch' = res

\* the empty lock file, then PreflightExportOptions on a copy of the base
\* options with the fields of the first lock
LockPreflight ==
  /\ pc = "lock_idle"
  /\ IF Len(locks) = 0
     THEN ReturnBatch([err |-> "NotFoundError", msg |-> "no providers found in lockfile",
                       summaries |-> <<>>])
     ELSE \E p \in {prepareExportOptions(fs, OptionsOfLock(opts0, locks[1].lock))} :
            IF p.ok THEN pc' = "lock_client" /\ batch' = batch
            ELSE ReturnBatch([err |-> p.err, msg |-> p.msg, summaries |-> <<>>])
  /\ UNCHANGED <<inputVars, pin, pout, opts, fs, fsStart, run, cacheInit, o, ext, pvid, planVars,
                 cleanTargets, manifestDocs, result, calls, fsLog,
                 locks, lockIdx, summaries, batchLog, cacheVars, spinVars>>

\* buildRegistryClient, then the empty list of summaries
LockBuildRegistryClient ==
  /\ pc = "lock_client"
  /\ cacheInit' = TRUE
  /\ summaries' = <<>>
  /\ pc' = "lock_next"
  /\ UNCHANGED <<inputVars, pin, pout, opts, fs, fsStart, run, o, ext, pvid, planVars,
                 cleanTargets, manifestDocs, result, calls, fsLog,
                 locks, lockIdx, batch, batchLog, cacheVars, spinVars>>

\* the head of the loop over the locks: the options of the next provider,
\* then ExportDocs is called
LockBegin ==
  /\ pc = "lock_next"
  /\ lockIdx < Len(locks)
  /\ lockIdx' = lockIdx + 1
  /\ opts' = OptionsOfLock(opts0, locks[lockIdx + 1].lock)
  /\ reg' = locks[lockIdx + 1].reg
  /\ fsStart' = fs
  /\ pc' = "export"
  /\ o' = NoOpts /\ ext' = <<>> /\ pvid' = ""
  /\ catIdx' = 0 /\ page' = 0 /\ docs' = <<>> /\ seen' = {} /\ planned' = <<>>
  /\ pathOwners' = <<>> /\ cleanTargets' = <<>> /\ manifestDocs' = <<>>
  /\ result' = NoResult
  /\ batchLog' = Append(batchLog, [ev |-> "begin", i |-> lockIdx + 1, err |-> "",
                                   calls |-> Len(calls), fsCalls |-> Len(fsLog),
                                   files |-> <<>>])
  /\ UNCHANGED <<opts0, pin, pout, fs, run, cacheInit, calls, fsLog, locks, summaries, batch,
                 cacheVars, spinVars>>

\* a loop over the locks that goes on to the next provider after a failure
LockEndContinuing ==
  /\ pc = "done"
  /\ lockIdx > 0
  /\ batchLog' = Append(batchLog, [ev |-> "end", i |-> lockIdx, err |-> result.err,
                                   calls |-> Len(calls), fsCalls |-> Len(fsLog),
                                   files |-> SubSeq(planned, 1, Len(manifestDocs))])
  /\ summaries' = IF result.err # "" THEN summaries ELSE Append(summaries, result.summary)
  /\ IF lockIdx = Len(locks)
     THEN ReturnBatch([err |-> result.err, msg |-> result.msg,
                       summaries |-> IF result.err # "" THEN <<>> ELSE summaries'])
     ELSE pc' = "lock_next" /\ batch' = batch
  /\ UNCHANGED <<inputVars, pin, pout, opts, fs, fsStart, run, cacheInit, o, ext, pvid, planVars,
                 cleanTargets, manifestDocs, result, calls, fsLog, locks, lockIdx, cacheVars,
                 spinVars>>

\* ExportDocs has returned: its error ends the batch without summaries,
\* its summary is appended and the loop goes on
LockEnd ==
  /\ pc = "done"
  /\ lockIdx > 0
  /\ batchLog' = Append(batchLog, [ev |-> "end", i |-> lockIdx, err |-> result.err,
                                   calls |-> Len(calls), fsCalls |-> Len(fsLog),
                                   files |-> SubSeq(planned, 1, Len(manifestDocs))])
  /\ IF result.err # ""
     THEN /\ ReturnBatch([err |-> result.err, msg |-> result.msg, summaries |-> <<>>])
          /\ summaries' = summaries
     ELSE /\ summaries' = Append(summaries, result.summary)
          /\ IF lockIdx = Len(locks)
             THEN ReturnBatch([err |-> "", msg |-> "",
                               summaries |-> Append(summaries, result.summary)])
             ELSE pc' = "lock_next" /\ batch' = batch
  /\ UNCHANGED <<inputVars, pin, pout, opts, fs, fsStart, run, cacheInit, o, ext, pvid, planVars,
                 cleanTargets, manifestDocs, result, calls, fsLog, locks, lockIdx, cacheVars,
                 spinVars>>

NextLock ==
  \/ LockPreflight
  \/ LockBuildRegistryClient
  \/ LockBegin
  \/ Prepare
  \/ Resolve
  \/ ListPage
  \/ PlanDoc
  \/ Sort
  \/ DeriveClean
  \/ CleanTarget
  \/ WritePlanned
  \/ WriteManifest
  \/ LockEnd

SpecLock == InitLock /\ [][NextLock]_vars

\* ------------------------------------------------------------------------
\* internal/cli/cli.go: the exit code of an error; an error is its chain of
\* Unwrap, outermost first, and nil is the empty chain
\* ------------------------------------------------------------------------

\* the deepest wrapping of an error
MaxWraps == 1

StatusCodes == {404, 429, 500}

\* the error types with an Unwrap method, and fmt.Errorf("%w")
WrappingKinds == {"WriteError", "CacheInitError", "ParseError", "wrapped"}

ErrNode(kind, status) == [kind |-> kind, status |-> status]

ErrNodes ==
  { ErrNode(k, 0) : k \in {"ValidationError", "FormatError", "NotFoundError", "ConfigError",
                           "ErrHelp", "other"} \cup WrappingKinds }
    \cup { ErrNode("APIError", s) : s \in StatusCodes }

Errors ==
  { ch \in UNION { [1..k -> ErrNodes] : k \in 0..(MaxWraps + 1) } :
      \A i \in DOMAIN ch : i < Len(ch) => ch[i].kind \in WrappingKinds }

\* errors.As(err, &target) for a target of the given type: the first error
\* of the chain with that type, as a set of at most one position
errorsAs(err, kind) ==
  { i \in DOMAIN err : err[i].kind = kind /\ \A j \in 1..(i - 1) : err[j].kind # kind }

\* an exit code that does not look at the status of an APIError
mapErrorToExitCodeNo404(err) ==
  IF errorsAs(err, "ValidationError") # {} THEN 1
  ELSE IF errorsAs(err, "FormatError") # {} THEN 1
  ELSE IF errorsAs(err, "NotFoundError") # {} THEN 2
  ELSE IF errorsAs(err, "APIError") # {} THEN 3
  ELSE IF errorsAs(err, "WriteError") # {} THEN 4
  ELSE IF errorsAs(err, "ConfigError") # {} THEN 1
  ELSE IF errorsAs(err, "CacheInitError") # {} THEN 4
  ELSE 3

mapErrorToExitCode(err) ==
  IF errorsAs(err, "ValidationError") # {} THEN 1
  ELSE IF errorsAs(err, "FormatError") # {} THEN 1
  ELSE IF errorsAs(err, "NotFoundError") # {} THEN 2
  ELSE IF errorsAs(err, "APIError") # {}
       THEN (IF \E i \in errorsAs(err, "APIError") : err[i].status = 404 THEN 2 ELSE 3)
  ELSE IF errorsAs(err, "WriteError") # {} THEN 4
  ELSE IF errorsAs(err, "ConfigError") # {} THEN 1
  ELSE IF errorsAs(err, "CacheInitError") # {} THEN 4
  ELSE 3

\* handleSubcmdResult: nil and flag.ErrHelp give 0
handleSubcmdResult(err) ==
  IF err = <<>> THEN 0
  ELSE IF \E i \in DOMAIN err : err[i].kind = "ErrHelp" THEN 0
  ELSE mapErrorToExitCode(err)

InitExit ==
  /\ pin \in { [err |-> e] : e \in Errors }
  /\ pout = NoCall
  /\ opts0 = BaseOptions
  /\ opts = opts0
  /\ reg = R_ok
  /\ fs = Fs_stale
  /\ fsStart = fs
  /\ pc = "idle"
  /\ run = 1
  /\ FreshLocals
  /\ NoSide

CallHandleSubcmdResult ==
  /\ pout = NoCall
  /\ pout' = [fn |-> "handleSubcmdResult", res |-> handleSubcmdResult(pin.err)]
  /\ UNCHANGED <<mainVars, pin, sideVars>>

CallMapErrorToExitCode ==
  /\ pout = NoCall
  /\ pout' = [fn |-> "mapErrorToExitCode", res |-> mapErrorToExitCode(pin.err)]
  /\ UNCHANGED <<mainVars, pin, sideVars>>

NextExit ==
  \/ CallHandleSubcmdResult
  \/ CallMapErrorToExitCode

SpecExit == InitExit /\ [][NextExit]_vars

\* ------------------------------------------------------------------------
\* internal/cache/store.go: the persistent cache; the cache directory is a
\* table of directory entries over inodes, so that a file that is renamed
\* while a writer holds it open keeps receiving the writer's bytes
\* ------------------------------------------------------------------------

schemaVersion == "v1"

U_doc == "https://r/v2/provider-docs/1"
U_list == "https://r/v2/provider-docs?page=1"
URLs == {U_doc, U_list}

\* strings.ToUpper on a method name
ToUpperMethod(method) == IF method = "get" THEN "GET" ELSE method

\* entryPath: the key hash of a method and an URL; SHA-256 is taken to be
\* injective, so the hash is the pair itself
entryPath(method, rawURL) == <<ToUpperMethod(method), rawURL>>

KeyHashes == { entryPath("GET", u) : u \in URLs }

\* time.Format(time.RFC3339Nano) and time.Parse of it
FormatTime(t) == [layout |-> "RFC3339Nano", utc |-> t]
ParseTime(s) ==
  IF s \in [layout : {"RFC3339Nano"}, utc : Nat] THEN [ok |-> TRUE, t |-> s.utc]
  ELSE [ok |-> FALSE, t |-> 0]

\* the bytes of response bodies: their length counts, and whether they
\* decode as the JSON document the caller expects
Body(name, len, json) == [name |-> name, len |-> len, json |-> json]
NilBody == Body("", 0, FALSE)
B_short == Body("short", 1, TRUE)
B_long == Body("long", 2, TRUE)
B_text == Body("text", 2, FALSE)

\* the contents of a file of the cache directory: json.Marshal of an entry,
\* nothing, or bytes that are no JSON document
EmptyFile == [kind |-> "empty", len |-> 0]
GarbageFile(len) == [kind |-> "garbage", len |-> len]
EntryFile(schema, keyHash, expiresAt, body) ==
  [kind |-> "entry", len |-> 10 + body.len, schema |-> schema, keyHash |-> keyHash,
   expiresAt |-> expiresAt, body |-> body]

\* write(2) of data at offset 0 of a file that holds old: a shorter write
\* leaves the tail of the old bytes behind it
WriteAtStart(old, data) ==
  IF data.len >= old.len THEN data ELSE GarbageFile(old.len)

\* a cache directory: whether NewStore has made v1/entries, v1/tmp and
\* v1/meta.json, the inode behind every entry and every temporary file
\* (0: no such file), and the contents of the inodes
NoDir ==
  [made |-> FALSE, entries |-> [k \in KeyHashes |-> 0], tmp |-> [k \in KeyHashes |-> 0],
   inodes |-> <<>>]

\* NewStore(dir, ttl, enabled)
NewStore(dir, ttl, enabled) ==
  IF ~enabled THEN [err |-> "", dir |-> dir]
  ELSE IF ttl <= 0 THEN [err |-> "cache ttl must be positive", dir |-> dir]
  ELSE [err |-> "", dir |-> [dir EXCEPT !.made = TRUE]]

\* open(O_CREATE|O_TRUNC) of the temporary file of a key hash: the file
\* descriptor is the inode
OpenTmp(dir, keyHash) ==
  IF ~dir.made THEN [err |-> "ENOENT", fd |-> 0, dir |-> dir]
  ELSE IF dir.tmp[keyHash] # 0
  THEN [err |-> "", fd |-> dir.tmp[keyHash],
        dir |-> [dir EXCEPT !.inodes[dir.tmp[keyHash]] = EmptyFile]]
  ELSE [err |-> "", fd |-> Len(dir.inodes) + 1,
        dir |-> [dir EXCEPT !.inodes = Append(dir.inodes, EmptyFile),
                            !.tmp[keyHash] = Len(dir.inodes) + 1]]

\* write(fd, data) on a descriptor that was just opened
WriteFd(dir, fd, data) == [dir EXCEPT !.inodes[fd] = WriteAtStart(dir.inodes[fd], data)]

\* os.Rename(tmpPath, entryPath)
RenameTmp(dir, keyHash) ==
  IF dir.tmp[keyHash] = 0 THEN [err |-> "ENOENT", dir |-> dir]
  ELSE [err |-> "", dir |-> [dir EXCEPT !.entries[keyHash] = dir.tmp[keyHash],
                                        !.tmp[keyHash] = 0]]

\* os.ReadFile(entryPath)
ReadEntry(dir, keyHash) ==
  IF dir.entries[keyHash] = 0 THEN [err |-> "ErrNotExist", data |-> EmptyFile]
  ELSE [err |-> "", data |-> dir.inodes[dir.entries[keyHash]]]

\* os.Remove(entryPath), its error dropped
RemoveEntry(dir, keyHash) == [dir EXCEPT !.entries[keyHash] = 0]

\* the part of Store.Get after ReadFile: decoding, the checks of schema,
\* key hash and expiry
CheckEntry(data, keyHash, t) ==
  IF data.kind # "entry" THEN [ok |-> FALSE, body |-> NilBody]
  ELSE IF data.schema # schemaVersion \/ data.keyHash # keyHash THEN [ok |-> FALSE, body |-> NilBody]
  ELSE IF ~ParseTime(data.expiresAt).ok THEN [ok |-> FALSE, body |-> NilBody]
  ELSE IF t > ParseTime(data.expiresAt).t THEN [ok |-> FALSE, body |-> NilBody]
  ELSE [ok |-> TRUE, body |-> data.body]

\* Store.Get that leaves the file of an entry it rejects
StoreGetKeeping(s, dir, t, method, rawURL) ==
  IF ~s.enabled THEN [body |-> NilBody, ok |-> FALSE, err |-> "", dir |-> dir]
  ELSE Let(entryPath(method, rawURL), LAMBDA keyHash :
       Let(ReadEntry(dir, keyHash), LAMBDA rd :
         IF rd.err # "" THEN [body |-> NilBody, ok |-> FALSE, err |-> "", dir |-> dir]
         ELSE Let(CheckEntry(rd.data, keyHash, t), LAMBDA e :
                IF e.ok THEN [body |-> e.body, ok |-> TRUE, err |-> "", dir |-> dir]
                ELSE [body |-> NilBody, ok |-> FALSE, err |-> "", dir |-> dir])))

\* Store.Get(method, rawURL) at time t
StoreGet(s, dir, t, method, rawURL) ==
  IF ~s.enabled THEN [body |-> NilBody, ok |-> FALSE, err |-> "", dir |-> dir]
  ELSE Let(entryPath(method, rawURL), LAMBDA keyHash :
       Let(ReadEntry(dir, keyHash), LAMBDA rd :
         IF rd.err # "" THEN [body |-> NilBody, ok |-> FALSE, err |-> "", dir |-> dir]
         ELSE Let(CheckEntry(rd.data, keyHash, t), LAMBDA e :
                IF e.ok THEN [body |-> e.body, ok |-> TRUE, err |-> "", dir |-> dir]
                ELSE [body |-> NilBody, ok |-> FALSE, err |-> "",
                      dir |-> RemoveEntry(dir, keyHash)])))

\* the entry Store.Set marshals at time t
NewEntry(s, t, keyHash, body) == EntryFile(schemaVersion, keyHash, FormatTime(t + s.ttl), body)

\* Store.Set that does not look at enabled
StoreSetWriting(s, dir, t, method, rawURL, body) ==
  Let(entryPath(method, rawURL), LAMBDA keyHash :
  Let(OpenTmp(dir, keyHash), LAMBDA op :
    IF op.err # "" THEN [err |-> op.err, dir |-> dir]
    ELSE RenameTmp(WriteFd(op.dir, op.fd, NewEntry(s, t, keyHash, body)), keyHash)))

\* Store.Set(method, rawURL, status, contentType, body) at time t, with
\* no other process at work
StoreSet(s, dir, t, method, rawURL, body) ==
  IF ~s.enabled THEN [err |-> "", dir |-> dir]
  ELSE Let(entryPath(method, rawURL), LAMBDA keyHash :
       Let(OpenTmp(dir, keyHash), LAMBDA op :
         IF op.err # "" THEN [err |-> op.err, dir |-> dir]
         ELSE RenameTmp(WriteFd(op.dir, op.fd, NewEntry(s, t, keyHash, body)), keyHash)))

\* ------------------------------------------------------------------------
\* one process that calls Set and Get on a store while the wall clock moves
\* ------------------------------------------------------------------------

\* the number of Set and Get calls of a behaviour
MaxOps == 3

\* the latest reading of the wall clock
MaxTime == 2

\* a cache directory that earlier processes have used: an entry for U_doc
\* that expires at time 1, bytes that are no entry for U_list
D_used ==
  [made |-> TRUE,
   entries |-> (entryPath("GET", U_doc) :> 1) @@ (entryPath("GET", U_list) :> 2),
   tmp |-> [k \in KeyHashes |-> 0],
   inodes |-> <<EntryFile(schemaVersion, entryPath("GET", U_doc), FormatTime(1), B_long),
                GarbageFile(3)>>]

Stores == { [enabled |-> TRUE, ttl |-> 1], [enabled |-> FALSE, ttl |-> 1] }

InitCache ==
  /\ store \in Stores
  /\ \E d \in {NoDir, D_used} : cacheDir = NewStore(d, store.ttl, store.enabled).dir
  /\ now = 0
  /\ hist = <<>>
  /\ net = <<>> /\ procs = <<>> /\ client = <<>> /\ spinner = <<>> /\ out = <<>>
  /\ locks = <<>> /\ lockIdx = 0 /\ summaries = <<>> /\ batch = NoBatch /\ batchLog = <<>>
  /\ pin = NoPathInput
  /\ pout = NoCall
  /\ opts0 = BaseOptions
  /\ opts = opts0
  /\ reg = R_ok
  /\ fs = Fs_stale
  /\ fsStart = fs
  /\ pc = "idle"
  /\ run = 1
  /\ FreshLocals

\* time passes
ClockStep ==
  /\ now < MaxTime
  /\ now' = now + 1
  /\ UNCHANGED <<mainVars, pin, pout, lockVars, spinVars, store, cacheDir, hist, net, procs, client>>

\* store.Set("GET", url, 200, contentType, body)
CallStoreSet ==
  /\ Len(hist) < MaxOps
  /\ \E call \in {<<U_doc, B_short>>, <<U_doc, B_long>>, <<U_list, B_short>>} :
     \E r \in {StoreSet(store, cacheDir, now, "GET", call[1], call[2])} :
       /\ cacheDir' = r.dir
       /\ hist' = Append(hist, [op |-> "Set", key |-> entryPath("GET", call[1]), t |-> now,
                               body |-> call[2], ok |-> FALSE, err |-> r.err])
  /\ UNCHANGED <<mainVars, pin, pout, lockVars, spinVars, store, now, net, procs, client>>

\* store.Get(method, url)
CallStoreGet ==
  /\ Len(hist) < MaxOps
  /\ \E call \in {<<"get", U_doc>>, <<"GET", U_list>>} :
     \E r \in {StoreGet(store, cacheDir, now, call[1], call[2])} :
       /\ cacheDir' = r.dir
       /\ hist' = Append(hist, [op |-> "Get", key |-> entryPath(call[1], call[2]), t |-> now,
                               body |-> r.body, ok |-> r.ok, err |-> r.err])
  /\ UNCHANGED <<mainVars, pin, pout, lockVars, spinVars, store, now, net, procs, client>>

NextCache ==
  \/ ClockStep
  \/ CallStoreSet
  \/ CallStoreGet

SpecCache == InitCache /\ [][NextCache]_vars

\* ------------------------------------------------------------------------
\* the registry client over the cache store (Client.GetJSON, Client.get)
\* ------------------------------------------------------------------------

\* the largest Config.Retry, the longest script of answers of the server,
\* and the number of GetJSON calls of a behaviour
MaxRetry == 1
MaxResponses == 2
MaxCalls == 2

\* API paths, and Client.resolve on a client whose base URL is https://r
A_doc == "/v2/provider-docs/1"
A_list == "/v2/provider-docs?page=1"
Paths == {A_doc, A_list}
resolve(path) ==
  IF path \in URLs THEN path
  ELSE IF path = A_doc THEN U_doc
  ELSE U_list

\* what a request ends in: a status line and a body, or an error of the
\* transport or of reading the body
Response(kind, status, body) == [kind |-> kind, status |-> status, body |-> body]
Responses ==
  { Response("http", 200, B_short), Response("http", 200, B_text),
    Response("http", 500, B_text), Response("error", 0, NilBody) }

\* the server answers the first requests by its script and every later one
\* with status 200 and a document
Servers ==
  { [responses |-> rs, requests |-> 0] :
      rs \in UNION { [1..k -> Responses] : k \in 0..MaxResponses } }
ServerAnswer(n) ==
  IF n.requests < Len(n.responses) THEN n.responses[n.requests + 1]
  ELSE Response("http", 200, B_long)

\* what Client.get returns, with the cache directory and the server after it
GetResult(body, fromCache, err, dir, n) ==
  [body |-> body, fromCache |-> fromCache, err |-> err, dir |-> dir, net |-> n]

\* a retry loop that tries again after every status but 200
RECURSIVE getAttemptRetryingAll(_, _, _, _, _, _, _)
getAttemptRetryingAll(c, s, dir, t, n, fullURL, attempt) ==
  Let(ServerAnswer(n), LAMBDA resp :
  Let([n EXCEPT !.requests = @ + 1], LAMBDA n1 :
    IF resp.kind # "http"
    THEN IF attempt < c.retry THEN getAttemptRetryingAll(c, s, dir, t, n1, fullURL, attempt + 1)
         ELSE GetResult(NilBody, FALSE, IF resp.kind = "read" THEN "read" ELSE "transport", dir, n1)
    ELSE IF resp.status # 200
    THEN IF attempt < c.retry
         THEN getAttemptRetryingAll(c, s, dir, t, n1, fullURL, attempt + 1)
         ELSE GetResult(NilBody, FALSE, "APIError", dir, n1)
    ELSE GetResult(resp.body, FALSE, "", StoreSet(s, dir, t, "GET", fullURL, resp.body).dir, n1)))

\* a retry loop that stores the body of the answer that ends it, whatever
\* its status
RECURSIVE getAttemptStoringAll(_, _, _, _, _, _, _)
getAttemptStoringAll(c, s, dir, t, n, fullURL, attempt) ==
  Let(ServerAnswer(n), LAMBDA resp :
  Let([n EXCEPT !.requests = @ + 1], LAMBDA n1 :
    IF resp.kind # "http"
    THEN IF attempt < c.retry THEN getAttemptStoringAll(c, s, dir, t, n1, fullURL, attempt + 1)
         ELSE GetResult(NilBody, FALSE, IF resp.kind = "read" THEN "read" ELSE "transport", dir, n1)
    ELSE IF resp.status # 200
    THEN IF (resp.status = 429 \/ resp.status >= 500) /\ attempt < c.retry
         THEN getAttemptStoringAll(c, s, dir, t, n1, fullURL, attempt + 1)
         ELSE GetResult(NilBody, FALSE, "APIError",
                        StoreSet(s, dir, t, "GET", fullURL, resp.body).dir, n1)
    ELSE GetResult(resp.body, FALSE, "", StoreSet(s, dir, t, "GET", fullURL, resp.body).dir, n1)))

\* the retry loop of Client.get from attempt on: an error of Do or of ReadAll,
\* a 429 and a status of 500 or more are tried again while attempts are left;
\* the body of a 200 is stored before it is returned
RECURSIVE getAttempt(_, _, _, _, _, _, _)
getAttempt(c, s, dir, t, n, fullURL, attempt) ==
  Let(ServerAnswer(n), LAMBDA resp :
  Let([n EXCEPT !.requests = @ + 1], LAMBDA n1 :
    IF resp.kind # "http"
    THEN IF attempt < c.retry THEN getAttempt(c, s, dir, t, n1, fullURL, attempt + 1)
         ELSE GetResult(NilBody, FALSE, IF resp.kind = "read" THEN "read" ELSE "transport", dir, n1)
    ELSE IF resp.status # 200
    THEN IF (resp.status = 429 \/ resp.status >= 500) /\ attempt < c.retry
         THEN getAttempt(c, s, dir, t, n1, fullURL, attempt + 1)
         ELSE GetResult(NilBody, FALSE, "APIError", dir, n1)
    ELSE GetResult(resp.body, FALSE, "", StoreSet(s, dir, t, "GET", fullURL, resp.body).dir, n1)))

\* Client.get that reads the cache whatever readCache says
clientGetReadingCache(c, s, dir, t, n, path, readCache) ==
  Let(StoreGet(s, dir, t, "GET", resolve(path)), LAMBDA g :
    IF g.err = "" /\ g.ok THEN GetResult(g.body, TRUE, "", g.dir, n)
    ELSE getAttempt(c, s, g.dir, t, n, resolve(path), 0))

\* Client.get(ctx, path, readCache) at time t
clientGet(c, s, dir, t, n, path, readCache) ==
  IF readCache
  THEN Let(StoreGet(s, dir, t, "GET", resolve(path)), LAMBDA g :
         IF g.err = "" /\ g.ok THEN GetResult(g.body, TRUE, "", g.dir, n)
         ELSE getAttempt(c, s, g.dir, t, n, resolve(path), 0))
  ELSE getAttempt(c, s, dir, t, n, resolve(path), 0)

\* what Client.GetJSON returns: its error, the body it decoded into dst,
\* whether it read a cached payload, whether it fetched again, with the cache
\* directory and the server after it
JSONResult(err, dst, first, refetched, last) ==
  [err |-> err, dst |-> dst, fromCache |-> first.fromCache, firstBody |-> first.body,
   refetched |-> refetched, dir |-> last.dir, net |-> last.net]

\* Client.GetJSON(ctx, path, dst) at time t
GetJSON(c, s, dir, t, n, path) ==
  Let(clientGet(c, s, dir, t, n, path, TRUE), LAMBDA r :
    IF r.err # "" THEN JSONResult(r.err, NilBody, r, FALSE, r)
    ELSE IF r.body.json THEN JSONResult("", r.body, r, FALSE, r)
    ELSE IF ~r.fromCache THEN JSONResult("decode", NilBody, r, FALSE, r)
    ELSE Let(clientGet(c, s, r.dir, t, r.net, path, FALSE), LAMBDA fresh :
           IF fresh.err # "" THEN JSONResult(fresh.err, NilBody, r, TRUE, fresh)
           ELSE IF ~fresh.body.json THEN JSONResult("decode", NilBody, r, TRUE, fresh)
           ELSE JSONResult("", fresh.body, r, TRUE, fresh)))

\* a cache directory whose entry for U_doc holds a payload that is no JSON
\* document and expires at time 1
D_poisoned ==
  [made |-> TRUE,
   entries |-> (entryPath("GET", U_doc) :> 1) @@ (entryPath("GET", U_list) :> 0),
   tmp |-> [k \in KeyHashes |-> 0],
   inodes |-> <<EntryFile(schemaVersion, entryPath("GET", U_doc), FormatTime(1), B_text)>>]

\* no export, no path call, no lock file, no spinner
OnlyCache ==
  /\ locks = <<>> /\ lockIdx = 0 /\ summaries = <<>> /\ batch = NoBatch /\ batchLog = <<>>
  /\ spinner = <<>> /\ out = <<>>
  /\ pin = NoPathInput
  /\ pout = NoCall
  /\ opts0 = BaseOptions
  /\ opts = opts0
  /\ reg = R_ok
  /\ fs = Fs_stale
  /\ fsStart = fs
  /\ pc = "idle"
  /\ run = 1
  /\ FreshLocals

InitClient ==
  /\ store \in Stores
  /\ \E d \in {NoDir, D_used, D_poisoned} : cacheDir = NewStore(d, store.ttl, store.enabled).dir
  /\ client \in [retry : 0..MaxRetry]
  /\ net \in Servers
  /\ now = 0
  /\ hist = <<>>
  /\ procs = <<>>
  /\ OnlyCache

\* client.GetJSON(ctx, path, &dst)
CallGetJSON ==
  /\ Len(hist) < MaxCalls
  /\ \E path \in Paths :
     \E r \in {GetJSON(client, store, cacheDir, now, net, path)} :
       /\ cacheDir' = r.dir
       /\ net' = r.net
       /\ hist' = Append(hist, [op |-> "GetJSON", path |-> path, t |-> now, err |-> r.err,
                               dst |-> r.dst, fromCache |-> r.fromCache,
                               firstBody |-> r.firstBody, refetched |-> r.refetched,
                               requests |-> r.net.requests - net.requests])
  /\ UNCHANGED <<mainVars, pin, pout, lockVars, spinVars, store, now, procs, client>>

NextClient ==
  \/ ClockStep
  \/ CallGetJSON

SpecClient == InitClient /\ [][NextClient]_vars

\* ------------------------------------------------------------------------
\* processes that share one cache directory: two call Set for one key, one
\* calls Get for it, and their system calls interleave
\* ------------------------------------------------------------------------

\* the processes: two call Set, one calls Get
Setters == {"set1", "set2"}
Getter == "get"
RaceKey == entryPath("GET", U_doc)

Proc(op, at, body) ==
  [op |-> op, pc |-> at, body |-> body, fd |-> 0,
   res |-> [ok |-> FALSE, body |-> NilBody, err |-> ""]]

InitRace ==
  /\ store = [enabled |-> TRUE, ttl |-> 1]
  /\ \E d \in {NoDir, D_used} : cacheDir = NewStore(d, store.ttl, store.enabled).dir
  /\ now \in 0..MaxTime
  /\ \E b1 \in {B_short, B_long}, b2 \in {B_short, B_long} :
       procs = ("set1" :> Proc("Set", "start", b1)) @@ ("set2" :> Proc("Set", "start", b2))
                 @@ (Getter :> Proc("Get", "start", NilBody))
  /\ hist = <<>>
  /\ net = <<>> /\ client = <<>>
  /\ OnlyCache

\* os.WriteFile(tmpPath, b, 0o644) of Store.Set, first part: the temporary
\* file is opened with O_CREATE and O_TRUNC
SetOpen ==
  \E p \in Setters :
    /\ procs[p].pc = "start"
    /\ \E op \in {OpenTmp(cacheDir, RaceKey)} :
         /\ cacheDir' = op.dir
         /\ procs' = [procs EXCEPT ![p].pc = IF op.err = "" THEN "opened" ELSE "done",
                                   ![p].fd = op.fd,
                                   ![p].res.err = op.err]
    /\ UNCHANGED <<mainVars, pin, pout, lockVars, spinVars, store, now, hist, net, client>>

\* os.WriteFile, second part: the entry is written through the descriptor,
\* which is then closed
SetWrite ==
  \E p \in Setters :
    /\ procs[p].pc = "opened"
    /\ cacheDir' = WriteFd(cacheDir, procs[p].fd, NewEntry(store, now, RaceKey, procs[p].body))
    /\ procs' = [procs EXCEPT ![p].pc = "written"]
    /\ UNCHANGED <<mainVars, pin, pout, lockVars, spinVars, store, now, hist, net, client>>

\* return os.Rename(tmpPath, entryPath)
SetRename ==
  \E p \in Setters :
    /\ procs[p].pc = "written"
    /\ \E rn \in {RenameTmp(cacheDir, RaceKey)} :
         /\ cacheDir' = rn.dir
         /\ procs' = [procs EXCEPT ![p].pc = "done", ![p].res.err = rn.err]
    /\ UNCHANGED <<mainVars, pin, pout, lockVars, spinVars, store, now, hist, net, client>>

\* Store.Get up to its checks: the file is read and decoded
GetRead ==
  /\ procs[Getter].pc = "start"
  /\ \E rd \in {ReadEntry(cacheDir, RaceKey)} :
     \E e \in {CheckEntry(rd.data, RaceKey, now)} :
       procs' = [procs EXCEPT ![Getter].pc = IF rd.err # "" \/ e.ok THEN "done" ELSE "rejected",
                              ![Getter].res = IF rd.err = "" /\ e.ok
                                              THEN [ok |-> TRUE, body |-> e.body, err |-> ""]
                                              ELSE [ok |-> FALSE, body |-> NilBody, err |-> ""]]
  /\ UNCHANGED <<mainVars, pin, pout, lockVars, spinVars, store, cacheDir, now, hist, net, client>>

\* Store.Get after a check has failed: _ = os.Remove(path), and a miss
GetRemove ==
  /\ procs[Getter].pc = "rejected"
  /\ cacheDir' = RemoveEntry(cacheDir, RaceKey)
  /\ procs' = [procs EXCEPT ![Getter].pc = "done"]
  /\ UNCHANGED <<mainVars, pin, pout, lockVars, spinVars, store, now, hist, net, client>>

NextRace ==
  \/ SetOpen
  \/ SetWrite
  \/ SetRename
  \/ GetRead
  \/ GetRemove

SpecRace == InitRace /\ [][NextRace]_vars

\* ------------------------------------------------------------------------
\* the progress spinner (progress.Spinner)
\* ------------------------------------------------------------------------

\* the number of calls of a behaviour, and of frames the goroutine draws
\* on its own
MaxSpinnerCalls == 5
MaxTicks == 2

Messages == {"starting", "step 1"}

\* the ten frames of the animation
frames == <<"f0", "f1", "f2", "f3", "f4", "f5", "f6", "f7", "f8", "f9">>

\* fmt.Fprintf(w, "%s\n", msg) and the two writes on a terminal, as the
\* pieces they append to the output
Line(msg) == <<msg, "\n">>
Frame(i, msg) == <<"\r", "ESC[K", frames[(i % Len(frames)) + 1], " ", msg>>
ClearLine == <<"\r", "ESC[K">>

\* close(ch) on a channel that is closed or not: closing twice panics
CloseChan(closed) == [closed |-> TRUE, panic |-> closed]

\* New(w): isTerminal(w) is true for a character device only
SpinnerNew(isTTY) ==
  [isTTY |-> isTTY, started |-> FALSE, message |-> "", done |-> FALSE, exited |-> FALSE,
   stopOnce |-> FALSE, running |-> FALSE, i |-> 0, panicked |-> FALSE]

\* Spinner.Start(msg) on spinner s with output w
SpinnerStart(s, w, msg) ==
  IF s.started THEN [s |-> s, w |-> w]
  ELSE IF s.isTTY
  THEN [s |-> [s EXCEPT !.started = TRUE, !.message = msg, !.running = TRUE], w |-> w]
  ELSE [s |-> [s EXCEPT !.started = TRUE, !.message = msg,
                        !.exited = CloseChan(s.exited).closed,
                        !.panicked = CloseChan(s.exited).panic],
        w |-> w \o Line(msg)]

\* one turn of the loop of Spinner.run when the ticker fires
SpinnerTick(s, w) ==
  [s |-> [s EXCEPT !.i = s.i + 1], w |-> w \o Frame(s.i, s.message)]

\* Spinner.Update that writes every message
SpinnerUpdateRepeating(s, w, msg) ==
  [s |-> [s EXCEPT !.message = msg],
   w |-> IF ~s.isTTY /\ s.started THEN w \o Line(msg) ELSE w]

\* Spinner.Update(msg)
SpinnerUpdate(s, w, msg) ==
  [s |-> [s EXCEPT !.message = msg],
   w |-> IF ~s.isTTY /\ s.started /\ msg # s.message THEN w \o Line(msg) ELSE w]

\* the function Spinner.Stop hands to stopOnce.Do: done is closed, the
\* goroutine draws a last frame or not, returns and closes exited, and the
\* line of a terminal is cleared
StopBody(s, w, lastFrame) ==
  Let(CloseChan(s.done), LAMBDA cl :
    IF cl.panic THEN [s |-> [s EXCEPT !.panicked = TRUE], w |-> w]
    ELSE IF s.isTTY
    THEN Let(IF lastFrame THEN SpinnerTick(s, w) ELSE [s |-> s, w |-> w], LAMBDA r :
           [s |-> [r.s EXCEPT !.done = TRUE, !.running = FALSE,
                              !.exited = CloseChan(s.exited).closed,
                              !.panicked = CloseChan(s.exited).panic],
            w |-> r.w \o ClearLine])
    ELSE [s |-> [s EXCEPT !.done = TRUE], w |-> w])

\* Spinner.Stop without its sync.Once
SpinnerStopEveryTime(s, w, lastFrame) ==
  IF ~s.started THEN [s |-> s, w |-> w]
  ELSE StopBody(s, w, lastFrame)

\* Spinner.Stop()
SpinnerStop(s, w, lastFrame) ==
  IF ~s.started THEN [s |-> s, w |-> w]
  ELSE IF s.stopOnce THEN [s |-> s, w |-> w]
  ELSE Let(StopBody(s, w, lastFrame), LAMBDA r :
         [s |-> [r.s EXCEPT !.stopOnce = TRUE], w |-> r.w])

InitSpinner ==
  /\ spinner \in {SpinnerNew(FALSE), SpinnerNew(TRUE)}
  /\ out = <<>>
  /\ hist = <<>>
  /\ locks = <<>> /\ lockIdx = 0 /\ summaries = <<>> /\ batch = NoBatch /\ batchLog = <<>>
  /\ store = [enabled |-> FALSE, ttl |-> 0] /\ cacheDir = <<>> /\ now = 0
  /\ net = <<>> /\ procs = <<>> /\ client = <<>>
  /\ pin = NoPathInput
  /\ pout = NoCall
  /\ opts0 = BaseOptions
  /\ opts = opts0
  /\ reg = R_ok
  /\ fs = Fs_stale
  /\ fsStart = fs
  /\ pc = "idle"
  /\ run = 1
  /\ FreshLocals

\* what a call leaves behind
Called(op, msg, r) ==
  /\ spinner' = r.s
  /\ out' = r.w
  /\ hist' = Append(hist, [op |-> op, msg |-> msg])
  /\ UNCHANGED <<mainVars, pin, pout, lockVars, store, cacheDir, now, net, procs, client>>

CallStart ==
  /\ Len(hist) < MaxSpinnerCalls /\ ~spinner.panicked
  /\ \E msg \in Messages : Called("Start", msg, SpinnerStart(spinner, out, msg))

CallUpdate ==
  /\ Len(hist) < MaxSpinnerCalls /\ ~spinner.panicked
  /\ \E msg \in Messages : Called("Update", msg, SpinnerUpdate(spinner, out, msg))

CallStop ==
  /\ Len(hist) < MaxSpinnerCalls /\ ~spinner.panicked
  /\ \E lastFrame \in {f \in BOOLEAN : f => (spinner.isTTY /\ spinner.i < MaxTicks)} :
       Called("Stop", "", SpinnerStop(spinner, out, lastFrame))

\* the goroutine of a terminal spinner draws a frame
RunTick ==
  /\ spinner.running /\ ~spinner.done /\ ~spinner.panicked
  /\ spinner.i < MaxTicks
  /\ \E r \in {SpinnerTick(spinner, out)} : spinner' = r.s /\ out' = r.w
  /\ UNCHANGED <<mainVars, pin, pout, lockVars, store, cacheDir, now, hist, net, procs, client>>

NextSpinner ==
  \/ CallStart
  \/ CallUpdate
  \/ CallStop
  \/ RunTick

SpecSpinner == InitSpinner /\ [][NextSpinner]_vars

\* ------------------------------------------------------------------------
\* direct calls of ExportDocs on registries whose first document lacks a
\* slug or a category, or comes back undecodable from the first Get
\* ------------------------------------------------------------------------

S_lst == <<"l","s","t">>

\* d1 with a detail slug, a listing slug and a detail category
SluggedDoc(slug, listSlug, category) ==
  [D1 EXCEPT !.Slug = slug, !.listSlug = listSlug, !.Category = category]

\* d1 recovered by GetJSON, with the bytes of its second Get decodable or
\* not, and empty or not
RecoveredDoc(valid, empty) ==
  [D1 EXCEPT !.corrupt = TRUE, !.raw2Valid = valid, !.raw2Empty = empty]

DocVariants ==
  { SluggedDoc(s, ls, c) : s \in {<<>>, D1.Slug}, ls \in {<<>>, S_lst},
                           c \in {C_guides, <<>>, <<"-", ".">>, W_unknown} }
  \cup { RecoveredDoc(TRUE, FALSE), RecoveredDoc(FALSE, FALSE), RecoveredDoc(FALSE, TRUE) }

\* the variant of d1 is listed under guides, d2 under resources
DocRegistries == { Registry(VersionsOK, << <<d>> >>, << <<D2>> >>, {}) : d \in DocVariants }

InitDocs ==
  /\ opts0 \in {BaseOptions, [BaseOptions EXCEPT !.Format = F_json]}
  /\ opts = opts0
  /\ reg \in DocRegistries
  /\ fs = Fs_stale
  /\ fsStart = fs
  /\ pc = "idle"
  /\ run = 1
  /\ FreshLocals
  /\ NoSide
  /\ pin = NoPathInput
  /\ pout = NoCall

NextDocs ==
  \/ Prepare
  \/ Resolve
  \/ ListPage
  \/ PlanDoc
  \/ Sort
  \/ WritePlanned
  \/ WriteManifest

SpecDocs == InitDocs /\ [][NextDocs]_vars

\* ------------------------------------------------------------------------
\* another process replaces a directory by a symbolic link during the run
\* (SpecSwap): ExportDocs on a tree whose directories exist, and the write
\* loop's check of every planned path in internal/provider/export.go
\* ------------------------------------------------------------------------

\* the physical directory the other process links to
P_elsewhere == << <<"v">> >>

\* the directory at the physical path c is moved away and a symbolic link to
\* the directory `to` takes its place
SwapForLink(f, c, to) ==
  [q \in { q \in DOMAIN f : q = c \/ ~IsPrefixSeq(c, q) } |->
     IF q = c THEN LinkNode(to) ELSE f[q]]

\* the planned files whose turn of the write loop has not begun
Pending == { planned[i] : i \in (Len(manifestDocs) + 1)..Len(planned) }

\* the directory components of path p: its proper prefixes
Components(p) == { SubSeq(Elems(p), 1, k) : k \in 1..(Len(Elems(p)) - 1) }

NoLink(f) == \A q \in DOMAIN f : f[q].kind # "link"

\* planning is over, a planned file waits for its turn, and another process
\* replaces an existing directory on the way to it by a symbolic link
SwapDirectory ==
  /\ pc \in {"sort", "clean", "rm", "write"}
  /\ NoLink(fs)
  /\ \E pf \in Pending :
     \E c \in Components(pf.path) :
       /\ IsKind(fs, c, "dir")
       /\ fs' = SwapForLink(fs, c, P_elsewhere)
  /\ UNCHANGED <<inputVars, callVars, opts, fsStart, pc, run, cacheInit, o, ext, pvid, planVars,
                 cleanTargets, manifestDocs, result, calls, fsLog>>

\* the output of an earlier run, with the directories of both categories
Fs_dirsOfDocs == MkdirAll(Fs_stale, Dir(P_s3Doc)).fs

InitSwap ==
  /\ opts0 \in {BaseOptions, [BaseOptions EXCEPT !.Clean = TRUE]}
  /\ opts = opts0
  /\ reg = R_ok
  /\ fs = Fs_dirsOfDocs
  /\ fsStart = fs
  /\ pc = "idle"
  /\ run = 1
  /\ FreshLocals
  /\ NoSide
  /\ pin = NoPathInput
  /\ pout = NoCall

NextSwap ==
  \/ Prepare
  \/ Resolve
  \/ ListPage
  \/ PlanDoc
  \/ Sort
  \/ DeriveClean
  \/ CleanTarget
  \/ WritePlanned
  \/ WriteManifest
  \/ SwapDirectory

SpecSwap == InitSwap /\ [][NextSwap]_vars

\* ------------------------------------------------------------------------
\* Client.Get on servers that also answer 404 and 429 and that break off a
\* body (SpecGet)
\* ------------------------------------------------------------------------

\* what a request for Get ends in: a document, a status that is tried again,
\* a status that asks to slow down, a status that is not tried again, an
\* error of the transport, and a 200 whose body cannot be read to its end
GetResponses ==
  { Response("http", 200, B_short), Response("http", 500, B_text),
    Response("http", 429, B_text), Response("http", 404, B_text),
    Response("error", 0, NilBody), Response("read", 200, NilBody) }

GetServers ==
  { [responses |-> rs, requests |-> 0] :
      rs \in UNION { [1..k -> GetResponses] : k \in 0..MaxResponses } }

\* the answer to the k-th request that the server receives
AnswerAt(k) == ServerAnswer([net EXCEPT !.requests = k - 1])

\* Client.Get(ctx, path) at time t
Get(c, s, dir, t, n, path) == clientGet(c, s, dir, t, n, path, TRUE)

InitGet ==
  /\ store \in Stores
  /\ \E d \in {NoDir, D_used} : cacheDir = NewStore(d, store.ttl, store.enabled).dir
  /\ client \in [retry : 0..MaxRetry]
  /\ net \in GetServers
  /\ now = 0
  /\ hist = <<>>
  /\ procs = <<>>
  /\ OnlyCache

\* client.Get(ctx, path), with the file of the cache entry before and after
CallGet ==
  /\ Len(hist) < MaxCalls
  /\ \E path \in Paths :
     \E r \in {Get(client, store, cacheDir, now, net, path)} :
       /\ cacheDir' = r.dir
       /\ net' = r.net
       /\ hist' = Append(hist, [op |-> "Get", path |-> path, t |-> now, err |-> r.err,
                               body |-> r.body, fromCache |-> r.fromCache,
                               first |-> net.requests,
                               requests |-> r.net.requests - net.requests,
                               was |-> ReadEntry(cacheDir, entryPath("GET", resolve(path))),
                               is |-> ReadEntry(r.dir, entryPath("GET", resolve(path))),
                               others |-> \A u \in URLs \ {resolve(path)} :
                                  ReadEntry(r.dir, entryPath("GET", u)) =
                                    ReadEntry(cacheDir, entryPath("GET", u))])
  /\ UNCHANGED <<mainVars, pin, pout, lockVars, spinVars, store, now, procs, client>>

NextGet ==
  \/ ClockStep
  \/ CallGet

SpecGet == InitGet /\ [][NextGet]_vars

\* ------------------------------------------------------------------------
\* one call of ExportDocs that is run to its end (SpecTerm): every call of
\* the client returns, and the goroutine of the caller keeps running
\* ------------------------------------------------------------------------

InitTerm ==
  /\ opts0 \in {BaseOptions, [BaseOptions EXCEPT !.Clean = TRUE],
               [BaseOptions EXCEPT !.Format = F_json]}
  /\ opts = opts0
  /\ reg \in Registries
  /\ fs = Fs_stale
  /\ fsStart = fs
  /\ pc = "idle"
  /\ run = 1
  /\ FreshLocals
  /\ NoSide
  /\ pin = NoPathInput
  /\ pout = NoCall

NextTerm ==
  \/ Prepare
  \/ Resolve
  \/ ListPage
  \/ PlanDoc
  \/ Sort
  \/ DeriveClean
  \/ CleanTarget
  \/ WritePlanned
  \/ WriteManifest

\* ExportDocs has a statement to run until it has returned
Running == pc # "done"

\* the goroutine that runs ExportDocs is not held up: a statement that can
\* run does run. For the steps whose enabling condition is the position
\* alone this is weak fairness of the step; for the whole of ExportDocs it
\* reads: the call returns, or it takes steps for ever
Scheduled ==
  /\ WF_vars(ListPage)
  /\ WF_vars(Sort)
  /\ (<>[](~Running) \/ []<><<NextTerm>>_vars)

SpecTerm == InitTerm /\ [][NextTerm]_vars /\ Scheduled

\* ------------------------------------------------------------------------
\* direct calls of sanitizeSegment on short strings of letters, digits,
\* dots, dashes, blanks, separators and a character outside ASCII
\* ------------------------------------------------------------------------

\* the longest segment, counted in characters
MaxSegment == 4

\* "\t" stands for white space other than the blank, "e'" for a character
\* outside ASCII
SegmentChars == {"a", "Z", "0", "_", "-", ".", " ", "/", "\\", "\t", "e'"}

SegmentInputs ==
  { [segment |-> sq] : sq \in UNION { [1..k -> SegmentChars] : k \in 0..MaxSegment } }

InitSegment ==
  /\ pin \in SegmentInputs
  /\ pout = NoCall
  /\ opts0 = BaseOptions
  /\ opts = opts0
  /\ reg = R_ok
  /\ fs = Fs_stale
  /\ fsStart = fs
  /\ pc = "idle"
  /\ run = 1
  /\ FreshLocals
  /\ NoSide

\* sanitizeSegment(s)
CallSanitizeSegment ==
  /\ pout = NoCall
  /\ pout' = [fn |-> "sanitizeSegment", res |-> sanitizeSegment(pin.segment)]
  /\ UNCHANGED <<mainVars, pin, sideVars>>

NextSegment == CallSanitizeSegment

SpecSegment == InitSegment /\ [][NextSegment]_vars

\* ------------------------------------------------------------------------
\* Spinner.Stop on a terminal, step by step (SpecStop): the caller closes
\* done and waits for exited while the goroutine of Spinner.run is at its
\* select, or between reading the message and writing the frame
\* ------------------------------------------------------------------------

\* where the caller and the goroutine stand, and the message the goroutine
\* has read for the frame it is about to write
Threads(caller, runAt, msg) == [caller |-> caller, run |-> runAt, msg |-> msg]

InitStop ==
  /\ spinner = SpinnerNew(TRUE)
  /\ procs = Threads("idle", "none", "")
  /\ out = <<>>
  /\ hist = <<>>
  /\ locks = <<>> /\ lockIdx = 0 /\ summaries = <<>> /\ batch = NoBatch /\ batchLog = <<>>
  /\ store = [enabled |-> FALSE, ttl |-> 0] /\ cacheDir = <<>> /\ now = 0
  /\ net = <<>> /\ client = <<>>
  /\ pin = NoPathInput
  /\ pout = NoCall
  /\ opts0 = BaseOptions
  /\ opts = opts0
  /\ reg = R_ok
  /\ fs = Fs_stale
  /\ fsStart = fs
  /\ pc = "idle"
  /\ run = 1
  /\ FreshLocals

\* what a step of the spinner leaves alone
SpinnerOnly == UNCHANGED <<mainVars, pin, pout, lockVars, store, cacheDir, now, net, client>>

\* Start(msg): on the first call the goroutine is started
StartCall ==
  /\ procs.caller = "idle" /\ Len(hist) < MaxSpinnerCalls
  /\ \E msg \in Messages :
     \E r \in {SpinnerStart(spinner, out, msg)} :
       /\ spinner' = r.s
       /\ out' = r.w
       /\ hist' = Append(hist, [op |-> "Start", msg |-> msg])
       /\ procs' = IF spinner.started THEN procs ELSE [procs EXCEPT !.run = "select"]
  /\ SpinnerOnly

\* Update(msg)
UpdateCall ==
  /\ procs.caller = "idle" /\ Len(hist) < MaxSpinnerCalls
  /\ \E msg \in Messages :
     \E r \in {SpinnerUpdate(spinner, out, msg)} :
       /\ spinner' = r.s
       /\ out' = r.w
       /\ hist' = Append(hist, [op |-> "Update", msg |-> msg])
  /\ UNCHANGED procs
  /\ SpinnerOnly

\* Stop(): it returns at once before Start and after an earlier Stop;
\* otherwise stopOnce runs the function that closes done, and the caller
\* waits for exited
StopBegin ==
  /\ procs.caller = "idle" /\ Len(hist) < MaxSpinnerCalls
  /\ hist' = Append(hist, [op |-> "Stop", msg |-> ""])
  /\ IF ~spinner.started \/ spinner.stopOnce
     THEN UNCHANGED <<spinner, procs>>
     ELSE /\ spinner' = [spinner EXCEPT !.done = CloseChan(spinner.done).closed,
                                        !.panicked = CloseChan(spinner.done).panic]
          /\ procs' = [procs EXCEPT !.caller = "waiting"]
  /\ UNCHANGED out
  /\ SpinnerOnly

\* a Stop that does not wait for exited
StopEndEarly ==
  /\ procs.caller = "waiting"
  /\ out' = out \o ClearLine
  /\ spinner' = [spinner EXCEPT !.stopOnce = TRUE]
  /\ procs' = [procs EXCEPT !.caller = "idle"]
  /\ UNCHANGED hist
  /\ SpinnerOnly

\* <-s.exited has a value: the line is cleared, stopOnce is done, Stop
\* returns
StopEnd ==
  /\ procs.caller = "waiting"
  /\ spinner.exited
  /\ out' = out \o ClearLine
  /\ spinner' = [spinner EXCEPT !.stopOnce = TRUE]
  /\ procs' = [procs EXCEPT !.caller = "idle"]
  /\ UNCHANGED hist
  /\ SpinnerOnly

\* the select of Spinner.run takes the ticker: the message is read under
\* the mutex
RunSelectTick ==
  /\ procs.run = "select"
  /\ spinner.i < MaxTicks
  /\ procs' = [procs EXCEPT !.run = "frame", !.msg = spinner.message]
  /\ UNCHANGED <<spinner, out, hist>>
  /\ SpinnerOnly

\* the frame is written with the message that was read
RunWriteFrame ==
  /\ procs.run = "frame"
  /\ out' = out \o Frame(spinner.i, procs.msg)
  /\ spinner' = [spinner EXCEPT !.i = spinner.i + 1]
  /\ procs' = [procs EXCEPT !.run = "select", !.msg = ""]
  /\ UNCHANGED hist
  /\ SpinnerOnly

\* the select of Spinner.run takes done: run returns and its deferred
\* close(s.exited) runs
RunSelectDone ==
  /\ procs.run = "select"
  /\ spinner.done
  /\ spinner' = [spinner EXCEPT !.running = FALSE,
                                !.exited = CloseChan(spinner.exited).closed,
                                !.panicked = CloseChan(spinner.exited).panic]
  /\ procs' = [procs EXCEPT !.run = "exited"]
  /\ UNCHANGED <<out, hist>>
  /\ SpinnerOnly

NextStop ==
  \/ StartCall
  \/ UpdateCall
  \/ StopBegin
  \/ StopEnd
  \/ RunSelectTick
  \/ RunWriteFrame
  \/ RunSelectDone

\* the goroutine and the caller are scheduled: a write that is under way
\* ends, a receive from a closed channel ends, and a select that finds done
\* closed again and again takes it (the ticker is ready every 80 ms only,
\* and select chooses among the ready cases at random)
FairStop ==
  /\ WF_vars(RunWriteFrame)
  /\ SF_vars(RunSelectDone)
  /\ WF_vars(StopEnd)

SpecStop == InitStop /\ [][NextStop]_vars /\ FairStop

\* ------------------------------------------------------------------------
\* properties of the export pipeline (Spec) and of the path functions
\* and of normalizeCategories (SpecPath, SpecBraces, SpecCategories)
\* ------------------------------------------------------------------------

\* every document the registry lists
DocsOf(r) ==
  UNION { UNION { Range(r.pages[c][p]) : p \in DOMAIN r.pages[c] } : c \in DOMAIN r.pages }

\* the output path of document d under the options of the current run, on
\* the file system the run started from
RenderedPath(d) ==
  BuildOutputPath(fsStart, o.PathTemplate, DocVars(o, ext, d.Category, d, DocSlug(d, d)), o.OutDir)

\* the requested version is not in the version list
VersionAbsent ==
  \A i \in DOMAIN reg.versions.included :
    reg.versions.included[i].version # TrimSpace(opts0.Version)

\* some detail fetch fails, or some document has no bytes to render as json
DetailOrRenderFails ==
  \E d \in DocsOf(reg) :
    \/ d.getErr
    \/ d.corrupt /\ (d.jsonErr \/ d.get2Err)
    \/ ToLower(TrimSpace(opts0.Format)) = F_json /\ d.corrupt /\ ~d.raw2Valid /\ d.raw2Empty

\* the registry answers every request of the run, and every document renders
RegistryAnswers == ~VersionAbsent /\ reg.listErr = {} /\ ~DetailOrRenderFails

\* the documents of the registry, each with its output path
RenderedDocs == { <<d.ID, RenderedPath(d)>> : d \in DocsOf(reg) }

\* two distinct documents render to one absolute path, or a document renders
\* to the reserved manifest path
CollidingDocs ==
  \E rendered \in {RenderedDocs} :
    \/ \E a, b \in rendered :
         a[1] # b[1] /\ a[2].ok /\ b[2].ok /\ a[2].val = b[2].val
    \/ \E a \in rendered :
         a[2].ok /\ a[2].val = manifestPathForOptions(o)

\* the run has removed something
Removed == \E i \in DOMAIN fsLog : fsLog[i].op = "RemoveAll"

\* the physical path q lies at or below the directory named by the path root
UnderPath(root, q) == IsPrefixSeq(Elems(root), q)

BadTemplates == {T_outside, T_unknown, T_malformed, T_manifest}

\* the options miss a required field, name an unsupported format or
\* category, or carry a template that cannot be accepted
FailsValidation == opts0 \in InvalidOptions \/ opts0.PathTemplate \in BadTemplates

\* C1: options that fail validation end the run with a ValidationError, with
\* no registry client call, no MkdirAll, WriteFile or RemoveAll, an unchanged
\* file system, and, at the CLI, before the cache is initialised
ValidationPrecedesEffects ==
  FailsValidation =>
    /\ calls = <<>>
    /\ fsLog = <<>>
    /\ fs = fsStart
    /\ cacheInit = FALSE
    /\ pc \in {"idle", "done"}
    /\ pc = "done" => result.err = "ValidationError"

\* a run rejected for a template that resolves to the reserved manifest path
C1_Witness ==
  /\ pc = "done"
  /\ opts0.PathTemplate = T_manifest
  /\ result = Failure("ValidationError", "reserved manifest path")
  /\ calls = <<>>

\* C2: when two distinct documents render to the same absolute path, or a
\* document renders to the reserved manifest path, the run has ended with a
\* ValidationError and with nothing written, made or removed; the files of
\* earlier runs are as they were
CollisionFailsBeforeWrites ==
  (pc = "done" /\ o # NoOpts /\ RegistryAnswers /\ CollidingDocs) =>
    /\ result.err = "ValidationError"
    /\ fsLog = <<>>
    /\ fs = fsStart

\* a run with clean requested that ended on a collision of two documents
C2_Witness ==
  /\ pc = "done"
  /\ reg = R_collision
  /\ opts0.Clean
  /\ CollidingDocs
  /\ result = Failure("ValidationError", "path collision detected")
  /\ Elems(P_staleCustom) \in DOMAIN fs

\* the path p is absolute, clean, and at or below root
Confined(root, p) == IsAbs(p) /\ Clean(p) = p /\ IsPrefixSeq(Elems(root), Elems(p))

\* C3: a path that BuildOutputPath returns is absolute and lies at or below
\* the output root, for every template and every variable value
OutputPathConfined ==
  (pout.fn = "BuildOutputPath" /\ pout.res.ok) =>
    Confined(Abs(pin.outDir), pout.res.val)

\* a relative template that climbs out of its own directory, resolved
\* against the output root and accepted: the result is the root itself
C3_Witness ==
  /\ pout.fn = "BuildOutputPath"
  /\ pout.res.ok
  /\ pin.template = <<"x">> \o <<Sep>> \o DotDot
  /\ pin.outDir = P_out
  /\ pout.res.val = P_out

\* the targets of the run: the document files, the manifest, and with clean
\* the roots to delete
RunTargets ==
  { RenderedPath(d).val : d \in DocsOf(reg) }
  \cup {manifestPathForOptions(o)}
  \cup (IF o.Clean THEN {deriveTemplateRoot(o, ext).val, manifestRootForOptions(o)} ELSE {})

\* a component between the output root and a target is a symbolic link
SymlinkOnTarget ==
  \E t \in RunTargets :
    ensureNoSymlinkTraversal(fsStart, o.OutDir, t) = "symlink component detected"

\* C4: when a path component between the output root and a write target,
\* the manifest path or a clean target is a symbolic link, the run fails and
\* has made no directory, written no file and removed nothing
SymlinkFailsBeforeMutation ==
  (pc = "done" /\ o # NoOpts /\ SymlinkOnTarget) =>
    /\ result.err # ""
    /\ fsLog = <<>>
    /\ fs = fsStart

\* some step before the clean step fails
PlanningFails ==
  \/ VersionAbsent
  \/ reg.listErr # {}
  \/ DetailOrRenderFails
  \/ o # NoOpts /\ CollidingDocs

\* C5: with clean requested, a run that fails before the clean step leaves
\* the file system as it was; nothing is removed before the version is
\* resolved and every category is planned; a version that is not in the list
\* gives a NotFoundError
CleanAfterPlanning ==
  /\ Removed => pvid # "" /\ catIdx > Len(o.Categories)
  /\ (pc = "done" /\ opts0.Clean /\ PlanningFails) =>
       /\ result.err # ""
       /\ ~Removed
       /\ fs = fsStart
  /\ (pc = "done" /\ o # NoOpts /\ reg.versions.err = "" /\ VersionAbsent) =>
       result.err = "NotFoundError"

\* clean requested, the version not in the list: NotFoundError, stale file kept
C5_Witness ==
  /\ pc = "done"
  /\ opts0.Clean
  /\ reg = R_noVersion
  /\ result.err = "NotFoundError"
  /\ Elems(P_staleOwn) \in DOMAIN fs

P_customRoot == <<"/","t","/","l","/","o","/","c","u","s","t","o","m">>
P_ownDocsRoot == <<"/","t","/","l","/","o","/","t","e","r","r","a","f","o","r","m","/","h","c","/","a","w","s","/","1",".","0","/","d","o","c","s">>

\* clean was requested with a template rooted at {out}/custom and the delete
\* step is over
CleanedCustom ==
  /\ opts0.Clean
  /\ o.PathTemplate \in {T_custom, T_relative}
  /\ pc \in {"write", "manifest", "done"}
  /\ pc = "done" => result.err = ""

CleanNeverDeletesOutRoot ==
  /\ \A i \in DOMAIN fsLog :
       fsLog[i].op = "RemoveAll" => fsLog[i].path # Abs(TrimSpace(opts0.OutDir))
  /\ (opts0.Clean /\ o # NoOpts /\ deriveTemplateRoot(o, ext).val = o.OutDir) =>
       /\ fsLog = <<>>
       /\ fs = fsStart
       /\ pc = "done" => result.err # ""
       /\ (pc = "done" /\ ~PlanningFails) => result.err = "ValidationError"

\* the template {out}/{slug}.{ext} with clean: rejected at the clean step
C7_Witness ==
  /\ pc = "done"
  /\ opts0.Clean
  /\ opts0.PathTemplate = T_root
  /\ deriveTemplateRoot(o, ext).val = o.OutDir
  /\ result = Failure("ValidationError", "--clean template resolves to --out-dir root")
  /\ catIdx > Len(o.Categories)

\* the path has the namespace, provider and version segments of the run
ScopedRoot(path) ==
  \E i \in DOMAIN Elems(path) :
    /\ i + 2 <= Len(Elems(path))
    /\ Elems(path)[i] = sanitizeSegment(o.Namespace)
    /\ Elems(path)[i + 1] = sanitizeSegment(o.Name)
    /\ Elems(path)[i + 2] = sanitizeSegment(o.Version)

\* C8: with clean requested, the derived template root is passed to
\* RemoveAll only when it is scoped by the namespace, provider and version
\* segments; the root {out}/terraform of the template
\* {out}/terraform/{category}/{slug}.{ext} is not removed
SharedTemplateRootKept ==
  (o # NoOpts /\ opts0.Clean) =>
    \A i \in DOMAIN fsLog : fsLog[i].op = "RemoveAll" => ScopedRoot(fsLog[i].path)

\* the nodes are equal, or manifests that differ in generated_at only
SameButTimestamp(a, b) ==
  IF a.kind = "file" /\ b.kind = "file" /\ a.data.t = "manifest" /\ b.data.t = "manifest"
  THEN [a.data EXCEPT !.generated_at = 0] = [b.data EXCEPT !.generated_at = 0]
  ELSE a = b

\* C9: after a second run with the same options, clean not requested, and
\* the same registry, the files are those of the first run with the same
\* contents, the manifest but for generated_at
RerunIsIdempotent ==
  (run >= 2 /\ pc = "done" /\ ~opts0.Clean /\ result.err = "") =>
    /\ DOMAIN fs = DOMAIN fsStart
    /\ \A q \in DOMAIN fs : SameButTimestamp(fs[q], fsStart[q])

\* a second run that succeeded and rewrote the manifest with a new timestamp
C9_Witness ==
  /\ run = 2
  /\ pc = "done"
  /\ ~opts0.Clean
  /\ result.err = ""
  /\ result.summary.Written = 2
  /\ fs # fsStart

\* the name between the braces of the placeholder at loc
KeyAt(t, loc) == SubSeq(t, loc[1] + 1, loc[2] - 1)

RECURSIVE Growth(_, _, _, _)
\* by how much the first k placeholders lengthen the text
Growth(t, locs, values, k) ==
  IF k = 0 THEN 0
  ELSE Growth(t, locs, values, k - 1)
       + Len(values[KeyAt(t, locs[k])]) - (locs[k][2] - locs[k][1] + 1)

\* C10: rendering replaces each placeholder of the template by the value of
\* its variable, verbatim, at the place the placeholder had; placeholder-shaped
\* text inside a value is not expanded
ValuesInsertedVerbatim ==
  (pout.fn = "renderPathTemplate" /\ pout.res.ok) =>
    Let(FindPlaceholders(pin.template, 1), LAMBDA locs :
      /\ Len(pout.res.val)
           = Len(pin.template) + Growth(pin.template, locs, pin.vars, Len(locs))
      /\ \A k \in DOMAIN locs :
           Let(locs[k][1] + Growth(pin.template, locs, pin.vars, k - 1), LAMBDA at :
           Let(pin.vars[KeyAt(pin.template, locs[k])], LAMBDA value :
             SubSeq(pout.res.val, at, at + Len(value) - 1) = value)))

\* the slug is the text {namespace}, and the rendered path carries it as it is
C10_Witness ==
  /\ pout.fn = "renderPathTemplate"
  /\ pout.res.ok
  /\ pin.template = PH(K_out) \o <<Sep>> \o PH(K_slug)
  /\ pin.outDir = P_out
  /\ pin.vars[K_slug] = PH(K_namespace)
  /\ pin.vars[K_namespace] = N_hc
  /\ pout.res.val = P_out \o <<Sep>> \o PH(K_namespace)


\* the well-formed tokens of the text: an opening brace, at least one
\* character that is no brace, a closing brace
Tokens(t) ==
  { <<a, b>> \in (DOMAIN t) \X (DOMAIN t) :
      /\ t[a] = "{" /\ t[b] = "}" /\ b > a + 1
      /\ \A j \in (a + 1)..(b - 1) : t[j] \notin Brace }

\* a brace of the text that opens or closes no well-formed token
StrayBrace(t) ==
  \E i \in DOMAIN t :
    t[i] \in Brace /\ \A tk \in Tokens(t) : i # tk[1] /\ i # tk[2]

\* the tokens whose key has no variable
AbsentTokens(t, values) ==
  { tk \in Tokens(t) : SubSeq(t, tk[1] + 1, tk[2] - 1) \notin DOMAIN values }

\* the text of the leftmost of the tokens
LeftmostToken(t, tokens) ==
  Let(CHOOSE tk \in tokens : \A other \in tokens : tk[1] <= other[1], LAMBDA tk :
    SubSeq(t, tk[1], tk[2]))

\* C11: a template with a brace outside every well-formed token fails with
\* the invalid-syntax error; else a template with a token whose key has no
\* variable (a key with a hyphen too) fails with the unresolved-placeholder
\* error that names the leftmost such token; else rendering succeeds,
\* whatever braces the values carry
BraceErrors ==
  (pout.fn \in {"BuildOutputPath", "renderPathTemplate"}) =>
    IF StrayBrace(pin.template)
    THEN ~pout.res.ok /\ pout.res.err = "invalid placeholder syntax"
    ELSE IF AbsentTokens(pin.template, pin.vars) # {}
    THEN /\ ~pout.res.ok
         /\ pout.res.err = "unresolved placeholder"
         /\ pout.res.val = LeftmostToken(pin.template, AbsentTokens(pin.template, pin.vars))
    ELSE /\ pout.res.err \notin {"invalid placeholder syntax", "unresolved placeholder"}
         /\ pout.fn = "renderPathTemplate" => pout.res.ok

\* the token {n-a} has no variable and is named by the error
C11_Witness ==
  /\ pout.fn = "BuildOutputPath"
  /\ pin.template = PH(K_slug) \o <<Sep>> \o PH(K_unknown_placeholder)
  /\ pout.res.err = "unresolved placeholder"
  /\ pout.res.val = PH(K_unknown_placeholder)


\* {out}/terraform/{namespace}/{provider}/{version}/docs/_manifest.json for
\* the options as the caller wrote them, each segment sanitized
ExpectedManifestPath ==
  Abs(TrimSpace(opts0.OutDir)) \o <<"/","t","e","r","r","a","f","o","r","m","/">> \o sanitizeSegment(opts0.Namespace)
    \o <<Sep>> \o sanitizeSegment(opts0.Name) \o <<Sep>> \o sanitizeSegment(opts0.Version)
    \o <<"/","d","o","c","s","/","_","m","a","n","i","f","e","s","t",".","j","s","o","n">>

\* the paths the run has passed to WriteFile
WrittenPaths == { fsLog[i].path : i \in { j \in DOMAIN fsLog : fsLog[j].op = "WriteFile" } }

\* C12: on every successful export the manifest is the file at
\* {out}/terraform/{namespace}/{provider}/{version}/docs/_manifest.json, the
\* last file the run wrote, whatever the path template, and the summary's
\* Manifest is that path
ManifestAtFixedPath ==
  (pc = "done" /\ result.err = "") =>
    /\ result.summary.Manifest = ExpectedManifestPath
    /\ fsLog[Len(fsLog)] = [op |-> "WriteFile", path |-> ExpectedManifestPath]
    /\ IsKind(fs, Elems(ExpectedManifestPath), "file")
    /\ fs[Elems(ExpectedManifestPath)].data.t = "manifest"
    /\ \A q \in DOMAIN fs :
         (fs[q].kind = "file" /\ fs[q].data.t = "manifest" /\ q # Elems(ExpectedManifestPath)) =>
           (q \in DOMAIN fsStart /\ fsStart[q] = fs[q])

\* a custom document template and a namespace that sanitizing changes
C12_Witness ==
  /\ pc = "done"
  /\ result.err = ""
  /\ opts0.PathTemplate = T_custom
  /\ opts0.Namespace = N_spaced
  /\ result.summary.Manifest = <<"/","t","/","l","/","o","/","t","e","r","r","a","f","o","r","m","/","h","-","c","/","a","w","s","/","1",".","0","/","d","o","c","s","/","_","m","a","n","i","f","e","s","t",".","j","s","o","n">>
  /\ fs[Elems(<<"/","t","/","l","/","o","/","t","e","r","r","a","f","o","r","m","/","h","-","c","/","a","w","s","/","1",".","0","/","d","o","c","s","/","_","m","a","n","i","f","e","s","t",".","j","s","o","n">>)].data.total = 2


\* the documents on the listing pages of the requested categories
ListedDocs ==
  UNION { UNION { Range(reg.pages[c][p]) : p \in DOMAIN reg.pages[c] } :
            c \in Range(o.Categories) \cap DOMAIN reg.pages }

\* the manifest the run wrote
WrittenManifest == fs[Elems(ExpectedManifestPath)].data

\* the WriteFile calls of the run at path
WritesAt(path) == { i \in DOMAIN fsLog : fsLog[i] = [op |-> "WriteFile", path |-> path] }

\* C13: on success Written is the manifest's total, the length of its docs
\* array and the number of distinct document IDs on the listings of the
\* requested categories; each of these documents was written once, at its
\* rendered path, where its file is
WrittenCountsAgree ==
  (pc = "done" /\ result.err = "") =>
    /\ result.summary.Written = WrittenManifest.total
    /\ result.summary.Written = Len(WrittenManifest.docs)
    /\ result.summary.Written = Cardinality({ d.ID : d \in ListedDocs })
    /\ { WrittenManifest.docs[i].DocID : i \in DOMAIN WrittenManifest.docs }
         = { d.ID : d \in ListedDocs }
    /\ \A d \in ListedDocs :
         \E at \in {RenderedPath(d)} :
           /\ at.ok
           /\ Cardinality(WritesAt(at.val)) = 1
           /\ IsKind(fs, Elems(at.val), "file")
           /\ fs[Elems(at.val)].data
                \in { renderContent(o.Format, d, RawBytes(d.ID, n, TRUE, FALSE)).data : n \in {1, 2} }
    /\ Cardinality({ i \in DOMAIN fsLog : fsLog[i].op = "WriteFile" })
         = Cardinality({ d.ID : d \in ListedDocs }) + 1

\* three documents, those of the resources category on two pages
C13_Witness ==
  /\ pc = "done"
  /\ result.err = ""
  /\ reg = R_collision
  /\ result.summary.Written = 3
  /\ WrittenManifest.total = 3
  /\ Len(WrittenManifest.docs) = 3


\* the paths the run has passed to WriteFile, in the order of the calls
WriteOrder ==
  Let(SelectSeq(fsLog, LAMBDA e : e.op = "WriteFile"), LAMBDA writes :
    [i \in DOMAIN writes |-> writes[i].path])

\* C14: the docs array of the manifest ascends by the entries' paths relative
\* to the output root, however the listings ordered the documents, and the
\* files are written in the order of the array, the manifest after them
ManifestSortedByPath ==
  /\ \A i, j \in DOMAIN manifestDocs :
       i < j => StrLess(manifestDocs[i].Path, manifestDocs[j].Path)
  /\ (pc = "done" /\ result.err = "") =>
       /\ WrittenManifest.docs = manifestDocs
       /\ Len(manifestDocs) = Len(planned)
       /\ WriteOrder = [i \in 1..(Len(manifestDocs) + 1) |->
                          IF i <= Len(manifestDocs) THEN Join(o.OutDir, manifestDocs[i].Path)
                          ELSE ExpectedManifestPath]

\* the listings give d1 (tag) before d2 (s3); the manifest has s3.md first
C14_Witness ==
  /\ pc = "done"
  /\ result.err = ""
  /\ reg = R_ok
  /\ opts0.PathTemplate = T_flat
  /\ calls[3].key = D1.ID
  /\ WrittenManifest.docs[1].DocID = D2.ID
  /\ WrittenManifest.docs[1].Path = <<"f","l","a","t","/","s","3",".","m","d">>
  /\ WrittenManifest.docs[2].Path = <<"f","l","a","t","/","t","a","g",".","m","d">>
  /\ WriteOrder[1] = <<"/","t","/","l","/","o","/","f","l","a","t","/","s","3",".","m","d">>


\* the client operations of the run on the detail endpoint of document id
DetailCalls(id) ==
  Let(SelectSeq(calls, LAMBDA c : c.what = "detail" /\ c.key = id), LAMBDA cs :
    [i \in DOMAIN cs |-> cs[i].op])

\* the first payload of d is undecodable and the recovery GetJSON fails
RecoveryFails(d) == ~d.getErr /\ d.corrupt /\ d.jsonErr

\* C15: for a document the run has fetched, the detail endpoint sees one Get;
\* a GetJSON follows only when the payload is undecodable, and only one; when
\* that GetJSON fails the run ends with its error and it is the last client
\* call
OneRecoveryAttempt ==
  \A d \in { x \in DocsOf(reg) : x.ID \in seen } :
    /\ DetailCalls(d.ID) # <<>>
    /\ DetailCalls(d.ID)[1] = "Get"
    /\ (d.getErr \/ ~d.corrupt) => DetailCalls(d.ID) = <<"Get">>
    /\ Cardinality({ i \in DOMAIN DetailCalls(d.ID) : DetailCalls(d.ID)[i] = "GetJSON" })
         = IF ~d.getErr /\ d.corrupt THEN 1 ELSE 0
    /\ Len(DetailCalls(d.ID)) <= 3
    /\ RecoveryFails(d) =>
         /\ DetailCalls(d.ID) = <<"Get", "GetJSON">>
         /\ pc = "done"
         /\ result.err = d.jsonErrIs
         /\ calls[Len(calls)] = [op |-> "GetJSON", what |-> "detail", key |-> d.ID, page |-> 0]

\* the recovery of d2 failed with NotFound: that is the error of the run
C15_Witness ==
  /\ pc = "done"
  /\ reg = R_jsonErr
  /\ D2.ID \in seen
  /\ result.err = "NotFoundError"
  /\ DetailCalls(D2.ID) = <<"Get", "GetJSON">>
  /\ DetailCalls(D1.ID) = <<"Get">>

\* the bytes of the n-th Get of document d, indented for format json
IndentedFetch(d, n) == [t |-> "indented", v |-> <<d.ID, n>>]

\* C16: a document whose first payload is undecodable and whose recovery
\* succeeds is planned, under format json, with the bytes of the second Get,
\* which follows the GetJSON; its detail endpoint is read with Get twice, and
\* on success its file holds those bytes
RecoveredRawIsReRead ==
  \A d \in { x \in DocsOf(reg) : x.ID \in seen /\ x.corrupt /\ ~x.getErr /\ ~x.jsonErr } :
    /\ DetailCalls(d.ID) = <<"Get", "GetJSON", "Get">>
    /\ \A i \in DOMAIN planned :
         (planned[i].item.DocID = d.ID /\ o.Format = F_json) =>
           planned[i].content = IndentedFetch(d, 2)
    /\ (pc = "done" /\ result.err = "" /\ o.Format = F_json) =>
         fs[Elems(RenderedPath(d).val)].data = IndentedFetch(d, 2)

\* format json, d2 recovered: its file holds the bytes of the second Get
C16_Witness ==
  /\ pc = "done"
  /\ result.err = ""
  /\ reg = R_recovered
  /\ o.Format = F_json
  /\ opts0.PathTemplate = DefaultPathTemplate
  /\ DetailCalls(D2.ID) = <<"Get", "GetJSON", "Get">>
  /\ fs[Elems(<<"/","t","/","l","/","o","/","t","e","r","r","a","f","o","r","m","/","h","c","/","a","w","s","/","1",".","0","/","d","o","c","s","/","r","e","s","o","u","r","c","e","s","/","s","3",".","j","s","o","n">>)].data = IndentedFetch(D2, 2)


\* the ValidationErrors of the planning loop and of the clean derivation
PlanningValidationMsgs ==
  {"path collision detected", "conflicts with reserved manifest path",
   "--clean template resolves to --out-dir root"}

\* the ValidationErrors of the symlink checks before a delete or a write
UnsafeTargetMsgs == {"unsafe --clean target", "unsafe output path", "manifest"}

\* the run has issued the provider-version request, as its first request
VersionRequested == calls # <<>> /\ calls[1].what = "versions"

ProcessedCategories ==
  Let(SelectSeq(calls, LAMBDA c : c.what = "list" /\ c.page = 1), LAMBDA firsts :
    [i \in DOMAIN firsts |-> firsts[i].key])

\* the options ask for every category: no list, or the token all
AsksForAll == opts0.Categories \in {<<>>, <<<<"a","l","l">>>>}

\* the sequence ascends strictly in byte order
Ascending(sq) == \A i, j \in DOMAIN sq : i < j => StrLess(sq[i], sq[j])

\* C18: the categories are processed in the order of the normalized list,
\* and that list ascends in byte order when it is derived from all
AllProcessedSorted ==
  (o # NoOpts) =>
    /\ ProcessedCategories = SubSeq(o.Categories, 1, Len(ProcessedCategories))
    /\ AsksForAll => Ascending(o.Categories)


\* the tokens of a category list, trimmed and lower-cased
CategoryTokens(input) ==
  Let(Flatten([i \in DOMAIN input |-> Split(input[i], ",")]), LAMBDA tokens :
    [i \in DOMAIN tokens |-> ToLower(TrimSpace(tokens[i]))])

\* some token is neither empty, nor all, nor an allowed category
HasUnsupportedToken(input) ==
  \E t \in Range(CategoryTokens(input)) :
    t # <<>> /\ t # W_all /\ t \notin Range(defaultCategories)

\* C19: a category list with an unsupported token is rejected with a
\* ValidationError wherever the token stands relative to an all token, and an
\* accepted list yields a non-empty list of allowed categories without
\* duplicates
UnsupportedCategoryRejected ==
  (pout.fn = "normalizeCategories") =>
    /\ HasUnsupportedToken(pin.categories) =>
         (~pout.res.ok /\ pout.res.err = "ValidationError")
    /\ pout.res.ok =>
         /\ pout.res.val # <<>>
         /\ Range(pout.res.val) \subseteq Range(defaultCategories)
         /\ \A i, j \in DOMAIN pout.res.val : i # j => pout.res.val[i] # pout.res.val[j]


\* the run ended in the loop over the planned files, on a failed MkdirAll or
\* WriteFile
StoppedWriting ==
  pc = "done" /\ result.err = "WriteError" /\ result.msg \in {"mkdir", "write"}

\* C20: when the write of the Nth planned file fails, the run returns a
\* WriteError with that file's path and no summary; the files before it are
\* on disk with their new contents, written once each; the failed call is
\* the last one, so no later file and no manifest is written
FailedWriteKeepsEarlierFiles ==
  StoppedWriting =>
    Let(Len(manifestDocs) + 1, LAMBDA n :
      /\ n \in DOMAIN planned
      /\ result.path = planned[n].path
      /\ result.summary = NoSummary
      /\ \A i \in 1..(n - 1) :
           /\ IsKind(fs, Elems(planned[i].path), "file")
           /\ fs[Elems(planned[i].path)].data = planned[i].content
           /\ Cardinality(WritesAt(planned[i].path)) = 1
      /\ \A i \in (n + 1)..Len(planned) :
           /\ WritesAt(planned[i].path) = {}
           /\ Elems(planned[i].path) \in DOMAIN fs =>
                (Elems(planned[i].path) \in DOMAIN fsStart
                   /\ fs[Elems(planned[i].path)] = fsStart[Elems(planned[i].path)])
      /\ fsLog # <<>>
      /\ fsLog[Len(fsLog)] \in {[op |-> "MkdirAll", path |-> Dir(planned[n].path)],
                               [op |-> "WriteFile", path |-> planned[n].path]}
      /\ WritesAt(manifestPathForOptions(o)) = {}
      /\ Cardinality({ i \in DOMAIN fsLog : fsLog[i].op = "WriteFile" })
           = n - 1 + (IF result.msg = "write" THEN 1 ELSE 0))

\* the second of two files cannot be written; the first one has replaced an
\* older file
C20_Witness ==
  /\ StoppedWriting
  /\ result.msg = "write"
  /\ Len(planned) = 2
  /\ Len(manifestDocs) = 1
  /\ result.path = planned[2].path
  /\ fsStart[Elems(planned[1].path)].data = Blob("old")
  /\ fs[Elems(planned[1].path)].data = planned[1].content


\* the requests for the provider versions, one per call of ExportDocs that
\* got past its validation
VersionCalls == SelectSeq(calls, LAMBDA c : c.what = "versions")

\* the entry of the batch log is the return of an export that failed
FailedEnd(e) == e.ev = "end" /\ e.err # ""

\* C21: the providers are exported one at a time in the order of the lock
\* file, each export returning before the next is called; the first failed
\* export is the last one, its error is what the batch returns, without any
\* summary, and nothing is called after it; the files and manifests written
\* by the earlier exports, and the files the failed one had written, are
\* on disk with their contents
BatchStopsAtFirstFailure ==
  /\ \A k \in DOMAIN batchLog :
       /\ batchLog[k].ev = (IF k % 2 = 1 THEN "begin" ELSE "end")
       /\ batchLog[k].i = (k + 1) \div 2
       /\ k < Len(batchLog) => ~FailedEnd(batchLog[k])
       /\ k > 1 => (batchLog[k - 1].calls <= batchLog[k].calls
                      /\ batchLog[k - 1].fsCalls <= batchLog[k].fsCalls)
       /\ (batchLog[k].ev = "begin" /\ k > 1) =>
            (batchLog[k - 1].calls = batchLog[k].calls
               /\ batchLog[k - 1].fsCalls = batchLog[k].fsCalls)
  /\ lockIdx = (Len(batchLog) + 1) \div 2
  /\ \A k \in DOMAIN VersionCalls :
       k <= lockIdx /\ VersionCalls[k].key \in
         { sanitizeSegment(locks[j].lock.Name) : j \in { j \in 1..lockIdx : j >= k } }
  /\ (pc = "batch_done" /\ batch.err # "") =>
       /\ batch.summaries = <<>>
       /\ batchLog # <<>> =>
            /\ FailedEnd(batchLog[Len(batchLog)])
            /\ batchLog[Len(batchLog)].err = batch.err
            /\ batchLog[Len(batchLog)].calls = Len(calls)
            /\ batchLog[Len(batchLog)].fsCalls = Len(fsLog)
       /\ Len(summaries) = IF lockIdx = 0 THEN 0 ELSE lockIdx - 1
       /\ \A k \in DOMAIN batchLog : \A n \in DOMAIN batchLog[k].files :
            /\ IsKind(fs, Elems(batchLog[k].files[n].path), "file")
            /\ fs[Elems(batchLog[k].files[n].path)].data = batchLog[k].files[n].content
       /\ \A n \in DOMAIN summaries : IsKind(fs, Elems(summaries[n].Manifest), "file")
  /\ (pc = "batch_done" /\ batch.err = "") =>
       /\ lockIdx = Len(locks)
       /\ batch.summaries = summaries
       /\ Len(summaries) = Len(locks)
       /\ \A n \in DOMAIN summaries :
            summaries[n].Provider = sanitizeSegment(locks[n].lock.Name)

\* the second of two providers fails on its second file, after the first
\* provider was exported
C21_Witness ==
  /\ pc = "batch_done"
  /\ batch.err = "WriteError"
  /\ Len(locks) = 2
  /\ lockIdx = 2
  /\ Len(summaries) = 1
  /\ Len(batchLog) = 4
  /\ Len(batchLog[2].files) = 2
  /\ Len(batchLog[4].files) = 1


\* C22: a ValidationError of a batch is returned before any export has
\* called the registry or the file system
BatchValidationPrecedesExports ==
  (pc = "batch_done" /\ batch.err = "ValidationError") => (calls = <<>> /\ fsLog = <<>>)


\* the exit code the documentation gives for an error of one type
ExitCodeOfKind(node) ==
  CASE node.kind \in {"ValidationError", "FormatError", "ConfigError"} -> 1
    [] node.kind = "NotFoundError" -> 2
    [] node.kind = "APIError" -> (IF node.status = 404 THEN 2 ELSE 3)
    [] node.kind \in {"WriteError", "CacheInitError"} -> 4
    [] OTHER -> 3

\* the order in which the error types are looked for in a chain
KindPriority ==
  <<"ValidationError", "FormatError", "NotFoundError", "APIError", "WriteError",
    "ConfigError", "CacheInitError">>

\* the errors of the chain that have a classified type
Classified(err) == { i \in DOMAIN err : err[i].kind \in Range(KindPriority) }

PriorityOf(kind) == CHOOSE n \in DOMAIN KindPriority : KindPriority[n] = kind

LastSetBefore(i) ==
  Max({0} \cup { j \in 1..(i - 1) : hist[j].op = "Set" /\ hist[j].key = hist[i].key })

\* the last call on a key (0: none)
LastCallOn(k) == Max({0} \cup { i \in 1..Len(hist) : hist[i].key = k })

\* C24: on an enabled store a Get that follows a Set of its key is a hit with
\* exactly the body of the last such Set when its time is at most the time of
\* that Set plus the ttl, and a miss when its time is later; a miss of an
\* entry that was there removes it, so the directory holds no entry for a key
\* whose last call was a Get that missed
HitUntilExpiryThenMiss ==
  store.enabled =>
    /\ \A i \in 1..Len(hist) :
         (hist[i].op = "Get" /\ LastSetBefore(i) # 0) =>
           \E j \in {LastSetBefore(i)} :
             /\ hist[j].err = ""
             /\ (hist[i].t <= hist[j].t + store.ttl) => (hist[i].ok /\ hist[i].body = hist[j].body)
             /\ (hist[i].t > hist[j].t + store.ttl) => (~hist[i].ok /\ hist[i].body = NilBody)
    /\ \A k \in KeyHashes :
         (LastCallOn(k) # 0 /\ hist[LastCallOn(k)].op = "Get" /\ ~hist[LastCallOn(k)].ok)
           => cacheDir.entries[k] = 0

\* a Set, a Get of the key at the last moment of the entry, and a Get after it
C24_Witness ==
  /\ store.enabled
  /\ Len(hist) = 3
  /\ hist[1].op = "Set" /\ hist[2].op = "Get" /\ hist[3].op = "Get"
  /\ hist[2].key = hist[1].key /\ hist[3].key = hist[1].key
  /\ hist[2].t = hist[1].t + store.ttl /\ hist[2].ok /\ hist[2].body = hist[1].body
  /\ hist[3].t > hist[1].t + store.ttl /\ ~hist[3].ok
  /\ cacheDir.entries[hist[1].key] = 0


\* C25: on a store that was created with caching disabled every Get is a
\* miss, every Set returns no error, and no call changes the cache directory:
\* a directory that did not exist is not made, and neither NewStore nor a
\* call creates or removes a file
DisabledStoreIsInert ==
  /\ (~store.enabled => cacheDir \in {NoDir, D_used})
  /\ [](~store.enabled =>
          \A i \in 1..Len(hist) :
            /\ hist[i].err = ""
            /\ hist[i].op = "Get" => (~hist[i].ok /\ hist[i].body = NilBody))
  /\ [][~store.enabled => cacheDir' = cacheDir]_vars

\* a disabled store on a directory that holds a live entry: a Set of the key
\* and a Get of it before the entry expires
C25_Witness ==
  /\ ~store.enabled
  /\ cacheDir = D_used
  /\ Len(hist) = 2
  /\ hist[1].op = "Set" /\ hist[2].op = "Get"
  /\ hist[1].key = entryPath("GET", U_doc) /\ hist[2].key = hist[1].key
  /\ hist[2].t <= 1
  /\ ~hist[2].ok


\* ------------------------------------------------------------------------
\* properties of the registry client (SpecClient)
\* ------------------------------------------------------------------------

\* call i of GetJSON read a cached payload that does not decode
ReadBadCache(i) == hist[i].fromCache /\ ~hist[i].firstBody.json

\* call i of GetJSON got from the network a payload that does not decode
ReadBadNetwork(i) ==
  ~hist[i].fromCache /\ hist[i].firstBody # NilBody /\ ~hist[i].firstBody.json

BodiesSet == { procs[p].body : p \in Setters } \cup {B_long}

\* C27: when both Set calls have finished and no Get has run, the entry of
\* the key is the complete entry of one of the two calls; a Get that has
\* finished has missed or has returned the complete body of some Set of the
\* key
OnlyLastWriteWins ==
  /\ ((\A p \in Setters : procs[p].pc = "done") /\ procs[Getter].pc = "start") =>
       \E p \in Setters :
         ReadEntry(cacheDir, RaceKey).data = NewEntry(store, now, RaceKey, procs[p].body)
  /\ (procs[Getter].pc = "done" /\ procs[Getter].res.ok) => procs[Getter].res.body \in BodiesSet


\* ------------------------------------------------------------------------
\* properties of the spinner (SpecSpinner)
\* ------------------------------------------------------------------------

\* the first call of Start (0: none)
FirstStart ==
  IF \E i \in 1..Len(hist) : hist[i].op = "Start"
  THEN Min({ i \in 1..Len(hist) : hist[i].op = "Start" })
  ELSE 0

\* the message that was set last before call i: by an Update or by the first
\* Start, a later Start being ignored
SetsMessage(j) == hist[j].op = "Update" \/ j = FirstStart
MessageBefore(i) ==
  IF \E j \in 1..(i - 1) : SetsMessage(j)
  THEN hist[Max({ j \in 1..(i - 1) : SetsMessage(j) })].msg
  ELSE ""

\* the calls that write a line according to C28, in call order
RECURSIVE LinesFrom(_)
LinesFrom(i) ==
  IF i > Len(hist) THEN <<>>
  ELSE IF FirstStart # 0 /\ i = FirstStart THEN Line(hist[i].msg) \o LinesFrom(i + 1)
  ELSE IF /\ FirstStart # 0 /\ i > FirstStart
          /\ hist[i].op = "Update" /\ hist[i].msg # MessageBefore(i)
  THEN Line(hist[i].msg) \o LinesFrom(i + 1)
  ELSE LinesFrom(i + 1)

\* C28: on a writer that is no terminal the output is the message of the
\* first Start on a line, then, in call order, a line for every later Update
\* whose message differs from the message set immediately before it; Updates
\* before the Start and further Starts write nothing
NonTerminalOutputIsLines ==
  ~spinner.isTTY => out = LinesFrom(1)

\* an Update before Start, a Start, a second Start, an Update that changes
\* the message and one that repeats it
C28_Witness ==
  /\ ~spinner.isTTY
  /\ Len(hist) = 5
  /\ hist[1].op = "Update" /\ hist[2].op = "Start" /\ hist[3].op = "Start"
  /\ hist[4].op = "Update" /\ hist[5].op = "Update"
  /\ hist[3].msg # hist[2].msg
  /\ hist[4].msg # hist[2].msg /\ hist[5].msg = hist[4].msg
  /\ out = Line(hist[2].msg) \o Line(hist[4].msg)


\* C29: in every sequence of Start, Update and Stop calls, on a terminal or
\* not, no call panics: done is closed only by a Stop that follows the Start,
\* and once; and while Start has not been called nothing has been written
StopIsSafe ==
  /\ ~spinner.panicked
  /\ spinner.done =>
       \E i \in 1..Len(hist) : hist[i].op = "Stop" /\ FirstStart # 0 /\ FirstStart < i
  /\ FirstStart = 0 => (out = <<>> /\ ~spinner.done /\ ~spinner.running)

\* a Stop before Start, then a Start and two Stops
C29_Witness ==
  /\ Len(hist) = 4
  /\ hist[1].op = "Stop" /\ hist[2].op = "Start" /\ hist[3].op = "Stop" /\ hist[4].op = "Stop"
  /\ spinner.isTTY
  /\ spinner.done /\ spinner.exited /\ ~spinner.running


\* the calls of getProviderDocDetail for document id in the run: a Get of
\* the detail that does not follow the recovery GetJSON of the same document
DetailFetches(id) ==
  { i \in DOMAIN calls :
      /\ calls[i].what = "detail" /\ calls[i].key = id /\ calls[i].op = "Get"
      /\ ~(i > 1 /\ calls[i - 1] = [op |-> "GetJSON", what |-> "detail", key |-> id, page |-> 0]) }

\* C30: within a run the detail of a document ID is fetched at most once and
\* the document is planned at most once, however many pages and categories
\* list it; an ID is fetched exactly when it is in the seen-set
FetchedAndPlannedOnce ==
  \A d \in DocsOf(reg) :
    /\ Cardinality(DetailFetches(d.ID)) <= 1
    /\ Cardinality({ i \in DOMAIN planned : planned[i].item.DocID = d.ID }) <= 1
    /\ d.ID \in seen <=> DetailFetches(d.ID) # {}

\* the listing calls of the run for a category
ListCalls(category) ==
  { i \in DOMAIN calls : calls[i].what = "list" /\ calls[i].key = category }

\* a finished run over guides and resources, which both list d1, one of them
\* on two pages
C30_Witness ==
  /\ pc = "done" /\ result.err = ""
  /\ reg = R_repeat
  /\ Cardinality(ListCalls(C_guides)) = 3
  /\ ListCalls(C_resources) # {}
  /\ Cardinality(DetailFetches(D1.ID)) = 1
  /\ Cardinality({ i \in DOMAIN planned : planned[i].item.DocID = D1.ID }) = 1


\* the listing calls of the run, and the listing call before call i (0: none)
ListIndexes == { i \in DOMAIN calls : calls[i].what = "list" }
ListBefore(i) == Max({0} \cup { j \in ListIndexes : j < i })

\* what the registry answered to listing call j
ListedAt(j) == listProviderDocs(reg, calls[j].key, calls[j].page)

\* C31: the first listing call asks for page 1 of the first category; a
\* listing call that follows a page with documents asks for the next page of
\* the same category, and only after the detail of every document of that
\* page has been fetched; a listing call that follows an empty page asks for
\* page 1 of the next category; nothing is listed after a failed listing
PagesInOrder ==
  \A i \in ListIndexes :
    /\ calls[i].key
         = o.Categories[Cardinality({ k \in ListIndexes : k <= i /\ calls[k].page = 1 })]
    /\ ListBefore(i) = 0 => calls[i].page = 1
    /\ ListBefore(i) # 0 =>
         \E j \in {ListBefore(i)} :
           /\ ListedAt(j).err = ""
           /\ ListedAt(j).docs # <<>> =>
                /\ calls[i].key = calls[j].key /\ calls[i].page = calls[j].page + 1
                /\ \A d \in Range(ListedAt(j).docs) :
                     \E k \in DetailFetches(d.ID) : k < i
           /\ ListedAt(j).docs = <<>> =>
                /\ calls[i].page = 1
                /\ calls[i].key # calls[j].key

\* the categories and pages of the listing calls, in call order
PagesListed ==
  Let(SelectSeq(calls, LAMBDA c : c.what = "list"), LAMBDA ls :
    [i \in DOMAIN ls |-> <<ls[i].key, ls[i].page>>])

\* a finished run over guides, listed on pages 1 to 3, and then resources
C31_Witness ==
  /\ pc = "done" /\ result.err = ""
  /\ reg = R_repeat
  /\ PagesListed = << <<C_guides, 1>>, <<C_guides, 2>>, <<C_guides, 3>>,
                      <<C_resources, 1>>, <<C_resources, 2>> >>


\* ------------------------------------------------------------------------
\* properties of the documents of a run (SpecDocs)
\* ------------------------------------------------------------------------

\* the first member of a sequence of strings that is not empty
FirstNonEmpty(ss) == ss[Min({ i \in DOMAIN ss : ss[i] # <<>> })]

\* the document of the registry with an ID, and the category it is listed
\* under
DocOfID(id) == CHOOSE d \in DocsOf(reg) : d.ID = id
ListedUnder(id) ==
  CHOOSE c \in DOMAIN reg.pages :
    \E p \in DOMAIN reg.pages[c] : \E d \in Range(reg.pages[c][p]) : d.ID = id

\* the directory of the default template for hc/Aws 1.0
DocsRoot == P_out \o <<"/","t","e","r","r","a","f","o","r","m","/","h","c","/","a","w","s","/","1",".","0","/","d","o","c","s">>

\* C32: the slug of a planned document is the slug of its detail, or else
\* the slug of its listing summary, or else its ID; its path under the
\* default template has the sanitized slug as file name and, as category
\* directory, the sanitized category of the detail, or the sanitized
\* requested category when that is unknown; the manifest entry carries the
\* same slug
SlugAndCategoryFallBack ==
  /\ \A i \in DOMAIN planned :
       \E d \in {DocOfID(planned[i].item.DocID)} :
       \E slug \in {FirstNonEmpty(<<d.Slug, d.listSlug, d.ID>>)} :
       \E cat \in {IF sanitizeSegment(d.Category) = W_unknown
                   THEN sanitizeSegment(ListedUnder(d.ID))
                   ELSE sanitizeSegment(d.Category)} :
         /\ planned[i].item.Slug = slug
         /\ planned[i].path
              = DocsRoot \o <<"/">> \o cat \o <<"/">> \o sanitizeSegment(slug) \o <<".">> \o ext
  /\ \A i \in DOMAIN manifestDocs :
       manifestDocs[i].Slug
         = FirstNonEmpty(<<DocOfID(manifestDocs[i].DocID).Slug,
                           DocOfID(manifestDocs[i].DocID).listSlug, manifestDocs[i].DocID>>)

\* a finished run whose first document has no detail slug and no category:
\* it is written under guides with the slug of the listing
C32_Witness ==
  /\ pc = "done" /\ result.err = ""
  /\ o.Format = F_markdown
  /\ \E i \in DOMAIN manifestDocs :
       /\ manifestDocs[i].DocID = D1.ID
       /\ DocOfID(D1.ID).Slug = <<>> /\ DocOfID(D1.ID).Category = <<>>
       /\ manifestDocs[i].Slug = S_lst
       /\ Elems(DocsRoot \o <<"/","g","u","i","d","e","s","/","l","s","t",".","m","d">>) \in DOMAIN fs


\* the bytes of the last Get of the detail of d: of the first Get, or of the
\* second one when the first payload was undecodable
LastRaw(d) ==
  IF d.corrupt THEN RawBytes(d.ID, 2, d.raw2Valid, d.raw2Empty)
  ELSE RawBytes(d.ID, 1, TRUE, FALSE)

\* the planned files of document d
PlannedOf(d) == { i \in DOMAIN planned : planned[i].item.DocID = d.ID }

\* C33: under format markdown the content of a planned document is the
\* content string of its detail; under format json it is the indented
\* re-encoding of its raw bytes when they parse and the raw bytes themselves
\* when they do not parse and are not empty; when they do not parse and are
\* empty the document is not planned and the run fails with a WriteError
RenderedByFormat ==
  \A d \in { x \in DocsOf(reg) : x.ID \in seen } :
    /\ o.Format = F_markdown =>
         \A i \in PlannedOf(d) : planned[i].content = [t |-> "blob", v |-> d.Content]
    /\ (o.Format = F_json /\ LastRaw(d).valid) =>
         \A i \in PlannedOf(d) :
           planned[i].content = [t |-> "indented", v |-> <<d.ID, LastRaw(d).fetch>>]
    /\ (o.Format = F_json /\ ~LastRaw(d).valid /\ ~LastRaw(d).empty) =>
         \A i \in PlannedOf(d) :
           planned[i].content = [t |-> "raw", v |-> <<d.ID, LastRaw(d).fetch>>]
    /\ (o.Format = F_json /\ ~LastRaw(d).valid /\ LastRaw(d).empty) =>
         /\ PlannedOf(d) = {}
         /\ pc = "done" /\ result.err = "WriteError"
    /\ (PlannedOf(d) = {}) => (pc = "done" /\ result.err # "")

\* a finished run under format json whose first document came back with
\* bytes that are no JSON document: its file holds them
C33_Witness ==
  /\ pc = "done" /\ result.err = ""
  /\ o.Format = F_json
  /\ DocOfID(D1.ID) = RecoveredDoc(FALSE, FALSE)
  /\ fs[Elems(DocsRoot \o <<"/","g","u","i","d","e","s","/","t","a","g",".","j","s","o","n">>)].data = [t |-> "raw", v |-> <<D1.ID, 2>>]


\* ------------------------------------------------------------------------
\* properties of the write loop under a swapped directory (SpecSwap)
\* ------------------------------------------------------------------------

\* a symbolic link stands at a directory component of path p that lies at
\* least `from` levels under the root
LinkOnWay(f, p, from) ==
  \E c \in Components(p) : Len(c) >= from /\ IsKind(f, c, "link")

\* the planned file whose turn of the write loop is next
NextFile == planned[Len(manifestDocs) + 1]

\* the step ends ExportDocs with the error of the write loop's path check
\* and touches no file
Refused ==
  /\ pc' = "done"
  /\ result'.err = "ValidationError"
  /\ result'.msg = "unsafe output path"
  /\ fs' = fs

\* something was created under the directory the other process linked to
WrittenElsewhere ==
  \E q \in DOMAIN fs : IsPrefixSeq(P_elsewhere, q) /\ q \notin DOMAIN fsStart

Retryable(resp) ==
  resp.kind # "http" \/ resp.status = 429 \/ resp.status >= 500

IsOK(resp) == resp.kind = "http" /\ resp.status = 200

\* the answer that ended the call h
LastAnswer(h) == AnswerAt(h.first + h.requests)

\* C35: a Get that misses the cache sends between one and retry+1 requests;
\* every request but the last was answered by a transport error, a body-read
\* error, a 429 or a status of 500 or more; a 200 ends the call with its
\* body, any other status that is not tried again ends it with an APIError,
\* and an answer that would be tried again is the last one only when
\* retry+1 requests have been sent
AttemptsBounded ==
  \A i \in DOMAIN hist :
    (hist[i].op = "Get" /\ ~hist[i].fromCache) =>
      /\ hist[i].requests \in 1..(client.retry + 1)
      /\ \A j \in 1..(hist[i].requests - 1) : Retryable(AnswerAt(hist[i].first + j))
      /\ IsOK(LastAnswer(hist[i])) =>
           hist[i].err = "" /\ hist[i].body = LastAnswer(hist[i]).body
      /\ (LastAnswer(hist[i]).kind = "http" /\ ~IsOK(LastAnswer(hist[i]))) =>
           hist[i].err = "APIError"
      /\ LastAnswer(hist[i]).kind # "http" => hist[i].err \in {"transport", "read"}
      /\ Retryable(LastAnswer(hist[i])) => hist[i].requests = client.retry + 1

\* retry is 1: a Get answered by a 429 and then a 404 ends with an APIError
\* after two requests, and the next Get, answered by a 404 at once, after one
C35_Witness ==
  /\ client.retry = 1
  /\ Len(hist) = 2
  /\ hist[1].op = "Get" /\ hist[1].requests = 2 /\ hist[1].err = "APIError"
  /\ AnswerAt(1).status = 429 /\ AnswerAt(2).status = 404
  /\ hist[2].op = "Get" /\ hist[2].requests = 1 /\ hist[2].err = ""

\* the file of the entry is a live entry that holds body
HoldsBody(rd, body) == rd.err = "" /\ rd.data.kind = "entry" /\ rd.data.body = body

\* C38: a Get changes no entry of another URL; it leaves the entry of its
\* URL as it was, removes it (Store.Get on an entry it rejects), or, when
\* its last request was answered with status 200 and a body read to its end,
\* replaces it by an entry that holds that body; a call that ends in an
\* error leaves no entry that was not there; a cache hit sends no request
CacheWrittenOnlyOn200 ==
  \A i \in DOMAIN hist :
    hist[i].op = "Get" =>
      /\ hist[i].others
      /\ hist[i].fromCache => hist[i].requests = 0 /\ hist[i].is = hist[i].was
      /\ (hist[i].is # hist[i].was /\ hist[i].is.err = "") =>
           /\ hist[i].err = ""
           /\ ~hist[i].fromCache
           /\ IsOK(LastAnswer(hist[i]))
           /\ HoldsBody(hist[i].is, LastAnswer(hist[i]).body)
      /\ hist[i].err # "" => (hist[i].is = hist[i].was \/ hist[i].is.err # "")
      /\ (store.enabled /\ cacheDir.made /\ hist[i].err = "" /\ ~hist[i].fromCache) =>
           HoldsBody(hist[i].is, hist[i].body)

\* an enabled store and retry 1: the first Get is answered by a 500 and a
\* 404 and leaves the directory without an entry, the second is answered
\* with status 200 and creates the entry
C38_Witness ==
  /\ store.enabled
  /\ Len(hist) = 2
  /\ hist[1].op = "Get" /\ hist[1].err = "APIError" /\ hist[1].requests = 2
  /\ hist[1].was.err # "" /\ hist[1].is.err # ""
  /\ hist[2].op = "Get" /\ hist[2].path = hist[1].path /\ hist[2].err = ""
  /\ hist[2].requests = 1 /\ HoldsBody(hist[2].is, B_long)


\* ------------------------------------------------------------------------
\* termination of ExportDocs (SpecTerm)
\* ------------------------------------------------------------------------

\* C36: ExportDocs returns, with a summary or with an error, when every
\* call of the client returns and the listing of each requested category
\* comes to an empty page
ExportDocsTerminates ==
  <>(/\ pc = "done"
     /\ (result.err = "" => result.summary.Written = Len(planned))
     /\ (result.err # "" \/ result.summary.Manifest # <<>>))

\* guides is listed on two pages and a third, empty one; resources on one
\* page and an empty one; the run has returned its summary
C36_Witness ==
  /\ pc = "done"
  /\ reg = R_repeat
  /\ result.err = ""
  /\ result.summary.Manifest # <<>>
  /\ \E i \in DOMAIN calls : calls[i].what = "list" /\ calls[i].page = 3


\* ------------------------------------------------------------------------
\* properties of sanitizeSegment (SpecSegment)
\* ------------------------------------------------------------------------

\* the characters a sanitized segment is made of
SegmentAlphabet == Range(LowerSeq) \cup Digits \cup {".", "_", "-"}

\* C37: for every input, sanitizeSegment returns a non-empty string over
\* [a-z0-9._-] that neither starts nor ends with "-" or ".": it is never
\* "." or ".." and holds no path separator
SegmentIsSafe ==
  pout.fn = "sanitizeSegment" =>
    /\ pout.res # <<>>
    /\ Range(pout.res) \subseteq SegmentAlphabet
    /\ Head(pout.res) \notin {"-", "."}
    /\ pout.res[Len(pout.res)] \notin {"-", "."}
    /\ pout.res \notin {<<".">>, <<".", ".">>}
    /\ Range(pout.res) \cap {"/", "\\"} = {}

\* "../Z" becomes "z"
C37_Witness ==
  /\ pin = [segment |-> <<".", ".", "/", "Z">>]
  /\ pout = [fn |-> "sanitizeSegment", res |-> <<"z">>]


\* ------------------------------------------------------------------------
\* properties of Spinner.Stop on a terminal (SpecStop)
\* ------------------------------------------------------------------------

\* Stop has run the function of stopOnce and has returned
StopReturned == spinner.stopOnce /\ procs.caller = "idle"

\* C39: on a terminal a Stop after Start returns in the end; it returns
\* only when the goroutine of the animation has exited; and once it has
\* returned nothing more is written
StopReturnsAfterExit ==
  /\ (procs.caller = "waiting") ~> StopReturned
  /\ [](StopReturned => procs.run = "exited" /\ spinner.exited /\ ~spinner.running)
  /\ [][StopReturned => out' = out]_vars

\* Stop was called while the goroutine stood before a write: the frame was
\* written, the goroutine exited, the line was cleared and Stop returned
C39_Witness ==
  /\ StopReturned
  /\ procs.run = "exited"
  /\ hist = <<[op |-> "Start", msg |-> "starting"], [op |-> "Stop", msg |-> ""]>>
  /\ out = Frame(0, "starting") \o ClearLine


\* ------------------------------------------------------------------------
\* normalization before and inside ExportDocs (Spec)
\* ------------------------------------------------------------------------

\* ExportDocs has normalized options that PreflightExportOptions had
\* normalized before the client was built
NormalizedTwice == cacheInit /\ o # NoOpts

\* C40: the second normalization changes no field of the options, and the
\* categories of ExportDocs after PreflightExportOptions are, in this
\* order, those of ExportDocs alone on the caller's options
NormalizationIdempotent ==
  NormalizedTwice =>
    /\ o = opts
    /\ o.Categories = validateExportOptions(opts0).opts.Categories

====
